---- MODULE Spec2Model ----
(***************************************************************************)
(* A model of pynavio's packaging helpers (src/pynavio/_mlflow.py):       *)
(* the model validator, the example-request registrar, the output check   *)
(* and the metadata patcher.                                               *)
(*                                                                         *)
(* Python values are modelled as follows.                                  *)
(*   Optional[T]   a sequence of length <= 1: <<>> is None, <<v>> is v     *)
(*   dict          a function; an insertion-ordered dict that is           *)
(*                 serialised is a sequence of <<key, value>> pairs        *)
(*   exception     the name of its class, "none" when nothing was raised   *)
(*   stdout        a sequence of printed messages, each a sequence of the  *)
(*                 parts of the f-string that printed it                   *)
(***************************************************************************)
EXTENDS Integers, Sequences, FiniteSets, TLC

VARIABLES
    vpc,            \* position of ModelValidator.__call__ / _run
    executed,       \* the stages of _run entered so far, in order (history)
    exc,            \* the exception _run raised, "none" if none (yet)
    raised,         \* the exception __call__ let through to its caller
    kwargs,         \* **kwargs of __call__
    model_output,   \* _run's local: what run_model_io returned
    metadata,       \* validate_metadata's local: the descriptor's metadata
    model_zip_size_limit,   \* argument of __call__
    st_size,        \* Optional: the archive size check_zip_size read
    out,            \* stdout of the operation in progress / last finished
    files,          \* the file system: path -> Optional text
    call,           \* the last finished call of a plain function
    patches,        \* how many times _add_metadata was called (history)
    packaging,      \* the frame of to_navio: position, arguments, effects
    serving         \* the frame of check_model_serving

vars == <<vpc, executed, exc, raised, kwargs, model_output, metadata,
          model_zip_size_limit, st_size, out, files, call, patches,
          packaging, serving>>

None == <<>>
Some(v) == <<v>>

\* ------------------------------------------------------------------------
\* Module constants of _mlflow.py
\* ------------------------------------------------------------------------
EXAMPLE_REQUEST == "example_request"
ARTIFACTS == "artifacts"
ERROR_KEYS == {"error_code", "message", "stack_trace"}
PREDICTION_KEY == "prediction"
pynavio_model_validation == "(pynavio model validation)"

\* Exceptions
NoExc == "none"
ValidationError == "jsonschema.ValidationError"
AssertionError == "AssertionError"
FileNotFoundError == "FileNotFoundError"
TypeError == "TypeError"
OtherError == "Exception"
KeyError == "KeyError"
ValueError == "ValueError"
AttributeError == "AttributeError"
KeyboardInterrupt == "KeyboardInterrupt"

\* dict.get(key, default)
Get(d, key, default) == IF key \in DOMAIN d THEN d[key] ELSE default

\* ------------------------------------------------------------------------
\* Model outputs and ModelValidator.verify_model_output
\* ------------------------------------------------------------------------
MaxItems == 2       \* longest prediction array drawn

ScalarTypes == {"integer", "number", "string", "boolean", "null"}
ItemTypes == ScalarTypes \cup {"object", "array"}

SeqsUpTo(S, n) == UNION {[1..k -> S] : k \in 0..n}

\* A JSON value as jsonschema sees it: its type and, for an array, the types
\* of its items (an item of type "array" is a nested array).  A Python int
\* is "integer", a float "number", a bool "boolean", None "null".
JsonValue(t, items) == [type |-> t, items |-> items]
PredictionValues ==
    {JsonValue(t, <<>>) : t \in ScalarTypes \cup {"object"}}
        \cup {JsonValue("array", s) : s \in SeqsUpTo(ItemTypes, MaxItems)}

\* What a model's predict may return: a Mapping with some keys, or any
\* other object (a list, an ndarray, None).
OutputKeys == {PREDICTION_KEY, "extra"} \cup ERROR_KEYS
ModelOutput(isMapping, keys, prediction) ==
    [mapping |-> isMapping, keys |-> keys, prediction |-> prediction]
NotAMapping == ModelOutput(FALSE, {}, JsonValue("null", <<>>))
ModelOutputs ==
    {NotAMapping}
        \cup {ModelOutput(TRUE, K, JsonValue("null", <<>>)) :
                K \in SUBSET (OutputKeys \ {PREDICTION_KEY})}
        \cup {ModelOutput(TRUE, K \cup {PREDICTION_KEY}, p) :
                K \in SUBSET (OutputKeys \ {PREDICTION_KEY}),
                p \in PredictionValues}

\* jsonschema's type check: "number" admits integers and floats, never bools.
is_type(t, schemaType) ==
    IF schemaType = "number" THEN t \in {"integer", "number"} ELSE t = schemaType

AllItems(v, schemaType) ==
    \A i \in 1..Len(v.items) : is_type(v.items[i], schemaType)

\* pynavio.utils.schemas.PREDICTION_SCHEMA as the predicate "instance
\* conforms": an object that has `prediction`, a non-empty array whose items
\* are all numbers, all strings or all booleans; other keys are free.
PREDICTION_SCHEMA(instance) ==
    /\ instance.mapping
    /\ PREDICTION_KEY \in instance.keys
    /\ instance.prediction.type = "array"
    /\ Len(instance.prediction.items) >= 1
    /\ \/ AllItems(instance.prediction, "number")
       \/ AllItems(instance.prediction, "string")
       \/ AllItems(instance.prediction, "boolean")

PREDICTION_TYPE_MSG ==
    [by |-> "_validate_prediction_schema",
     text |-> "ERROR: (pynavio model validation) The value of model_output['prediction'] must be one of the following types (cannot be nested or mixed type): 'array','boolean', 'integer', 'number', 'string'",
     arg |-> ""]
Result(e, printed) == [raised |-> e, out |-> printed]

\* the except clause prints and does not re-raise
_validate_prediction_schema_swallow(model_prediction) ==
    IF PREDICTION_SCHEMA(model_prediction)
    THEN Result(NoExc, <<>>)
    ELSE Result(NoExc, <<PREDICTION_TYPE_MSG>>)

\* verify_model_output._validate_prediction_schema
_validate_prediction_schema(model_prediction) ==
    IF PREDICTION_SCHEMA(model_prediction)
    THEN Result(NoExc, <<>>)
    ELSE Result(ValidationError, <<PREDICTION_TYPE_MSG>>)

\* the schema applied only to an output that has no key but `prediction`
verify_model_output_lax(output) ==
    IF ~output.mapping THEN Result(AssertionError, <<>>)
    ELSE IF PREDICTION_KEY \in output.keys
         THEN IF output.keys = {PREDICTION_KEY}
              THEN _validate_prediction_schema(output)
              ELSE Result(NoExc, <<>>)
         ELSE IF output.keys = ERROR_KEYS THEN Result(NoExc, <<>>)
              ELSE Result(AssertionError, <<>>)

\* the assert on the key set replaced by a subset test
verify_model_output_subset(output) ==
    IF ~output.mapping THEN Result(AssertionError, <<>>)
    ELSE IF PREDICTION_KEY \in output.keys
         THEN _validate_prediction_schema(output)
         ELSE IF output.keys \subseteq ERROR_KEYS THEN Result(NoExc, <<>>)
              ELSE Result(AssertionError, <<>>)

\* ModelValidator.verify_model_output
verify_model_output(output) ==
    IF ~output.mapping THEN Result(AssertionError, <<>>)
    ELSE IF PREDICTION_KEY \in output.keys
         THEN _validate_prediction_schema(output)
         ELSE IF output.keys = ERROR_KEYS THEN Result(NoExc, <<>>)
              ELSE Result(AssertionError, <<>>)


\* ------------------------------------------------------------------------
\* ModelValidator: __call__ and _run, one action per stage
\* ------------------------------------------------------------------------
MaxZipSize == 3     \* largest archive size drawn (the limits are below it)

Terminal == {"SUCCEEDED", "FAILED", "ERRORED"}

\* the two keyword arguments to_navio and the tests pass, each optional
AllKwargs ==
    [append_to_failed_msg |-> " Failed !!!",
     append_to_succeeded_msg |-> " Succeeded !!!"]
KwargsChoices == {[k \in K |-> AllKwargs[k]] : K \in SUBSET DOMAIN AllKwargs}

\* predict results the validator's runs draw from
PredictOutputs == {o \in ModelOutputs : Len(o.prediction.items) <= 1}

NoMetadata == [oodDetection |-> "", explanations |-> "", dataset |-> FALSE]
Metadatas ==
    [oodDetection : {"default", "disabled"},
     explanations : {"default", "plotly"},
     dataset : BOOLEAN]

_is_default_ood_enabled_in_metadata(md) ==
    md.oodDetection = "default" /\ md.dataset
_is_default_explanation_enabled_in_metadata(md) ==
    md.explanations = "default" /\ md.dataset

\* printed messages: who printed, the text, the interpolated value
Message(by, text, arg) == [by |-> by, text |-> text, arg |-> arg]
SchemaErrorMsg(name) ==
    Message("_validate_schema", "Error: (pynavio model validation) Error during {name} validation", name)
NESTED_WARNING ==
    Message("validate_metadata", "Warning: {pynavio_model_validation} the nested model input is not supported by frontend rendering", "")
NESTED_DEFAULT_WARNING ==
    Message("validate_metadata", "Warning: {pynavio_model_validation} default ood and explanations are not supported for nested model inputs.", "")
DECORATOR_WARNING ==
    Message("_check_if_prediction_call_is_used", "Warning: (pynavio model validation) Please use pynavio.prediction_call to decorate the predict method of the model", "")
SizeWarning(limit) ==
    Message("check_zip_size", "Warning: (pynavio model validation) the default model.zip size limit is {model_size_in_bytes} bytes.", ToString(limit))
FAILED_TEXT ==
    "(pynavio model validation): Validation failed. Please fix the identified issues before uploading the model."
SUCCEEDED_TEXT == "(pynavio model validation): Validation succeeded."
FailedMsg(kw) ==
    Message("__call__", FAILED_TEXT, Get(kw, "append_to_failed_msg", ""))
SucceededMsg(kw) ==
    Message("__call__", SUCCEEDED_TEXT, Get(kw, "append_to_succeeded_msg", ""))

\* _run: the statement that follows a stage that returned
_run_swapped(stage) ==
    CASE stage = "METADATA_CHECK" -> "REQUEST_SCHEMA_CHECK"
      [] stage = "REQUEST_SCHEMA_CHECK" -> "SERVING_SMOKE_TEST"
      [] stage = "SERVING_SMOKE_TEST" -> "OUTPUT_SHAPE_CHECK"
      [] stage = "OUTPUT_SHAPE_CHECK" -> "DECORATOR_USAGE_CHECK"
      [] stage = "DECORATOR_USAGE_CHECK" -> "SIZE_CHECK"
      [] stage = "SIZE_CHECK" -> "return"

_run_next(stage) ==
    CASE stage = "METADATA_CHECK" -> "REQUEST_SCHEMA_CHECK"
      [] stage = "REQUEST_SCHEMA_CHECK" -> "SERVING_SMOKE_TEST"
      [] stage = "SERVING_SMOKE_TEST" -> "DECORATOR_USAGE_CHECK"
      [] stage = "DECORATOR_USAGE_CHECK" -> "OUTPUT_SHAPE_CHECK"
      [] stage = "OUTPUT_SHAPE_CHECK" -> "SIZE_CHECK"
      [] stage = "SIZE_CHECK" -> "return"

\* Where control goes when a stage ends: on, or out of _run with the
\* exception (no stage of _run catches anything).
StageEnd(stage, e, printed) ==
    /\ executed' = Append(executed, stage)
    /\ out' = out \o printed
    /\ exc' = e
    /\ vpc' = IF e = NoExc THEN _run_next(stage) ELSE "except"

ValidatorFrame ==
    UNCHANGED <<raised, kwargs, model_zip_size_limit, files, call, patches,
                packaging, serving>>

\* ModelValidator()(model_path, model_zip, model_zip_size_limit, **kwargs)
Call ==
    /\ vpc \in {"idle"} \cup Terminal
    /\ \E kw \in KwargsChoices, limit \in 1..(MaxZipSize - 1) :
        /\ kwargs' = kw
        /\ model_zip_size_limit' = limit
    /\ vpc' = "METADATA_CHECK"
    /\ executed' = <<>>
    /\ out' = <<>>
    /\ exc' = NoExc
    /\ raised' = NoExc
    /\ model_output' = NotAMapping
    /\ metadata' = NoMetadata
    /\ st_size' = None
    /\ UNCHANGED <<files, call, patches, packaging, serving>>

\* validate_metadata, first half: read MLmodel, check `metadata`
validate_metadata_MLmodel ==
    /\ vpc = "METADATA_CHECK"
    /\ \/ /\ StageEnd("METADATA_CHECK", FileNotFoundError, <<>>)
          /\ UNCHANGED metadata
       \/ /\ StageEnd("METADATA_CHECK", ValidationError, <<SchemaErrorMsg("MLmodel")>>)
          /\ UNCHANGED metadata
       \/ \E md \in Metadatas :
            /\ metadata' = md
            /\ StageEnd("METADATA_CHECK", NoExc, <<>>)
    /\ UNCHANGED <<model_output, st_size>>
    /\ ValidatorFrame

\* validate_metadata, second half: read the example request, check it, warn
validate_metadata_example_request ==
    /\ vpc = "REQUEST_SCHEMA_CHECK"
    /\ \/ StageEnd("REQUEST_SCHEMA_CHECK", FileNotFoundError, <<>>)
       \/ StageEnd("REQUEST_SCHEMA_CHECK", ValidationError,
                   <<SchemaErrorMsg("example request")>>)
       \/ \E nested \in BOOLEAN :
            StageEnd("REQUEST_SCHEMA_CHECK", NoExc,
                IF ~nested THEN <<>>
                ELSE IF \/ _is_default_ood_enabled_in_metadata(metadata)
                        \/ _is_default_explanation_enabled_in_metadata(metadata)
                     THEN <<NESTED_WARNING, NESTED_DEFAULT_WARNING>>
                     ELSE <<NESTED_WARNING>>)
    /\ metadata' = NoMetadata
    /\ UNCHANGED <<model_output, st_size>>
    /\ ValidatorFrame

\* run_model_io: load the model, predict on the example request
run_model_io ==
    /\ vpc = "SERVING_SMOKE_TEST"
    /\ \/ /\ \E e \in {OtherError, AssertionError} :
                StageEnd("SERVING_SMOKE_TEST", e, <<>>)
          /\ UNCHANGED model_output
       \/ \E o \in PredictOutputs :
            /\ model_output' = o
            /\ StageEnd("SERVING_SMOKE_TEST", NoExc, <<>>)
    /\ UNCHANGED <<metadata, st_size>>
    /\ ValidatorFrame

\* ------------------------------------------------------------------------
\* prediction_call (pynavio.utils.common) and the check for its use
\* ------------------------------------------------------------------------

\* isinstance(exc, Exception): KeyboardInterrupt derives from BaseException
\* only, so `except Exception` does not catch it
IsException(cls) == cls \in {ValueError, KeyError, OtherError}

WRAPPED == "__wrapped__"
MARKER == "__wrapped_by_prediction_call__"

\* What a call of a function does: it returns a value or raises an
\* exception of a class with a message; `logged` is what it hands to the
\* logger.
Returns(v) == [raises |-> NoExc, message |-> "", value |-> v, logged |-> <<>>]
Raises(cls, msg) == [raises |-> cls, message |-> msg, value |-> None, logged |-> <<>>]

\* A function object: the truthy attributes of its __dict__, the decorator
\* that made it ("" for a plain def) and what a call of it does.
Function(attrs, decorator, outcome) ==
    [attrs |-> attrs, decorator |-> decorator, outcome |-> outcome]

\* traceback.format_exc() inside the except clause
format_exc(cls, msg) == "Traceback (most recent call last): " \o cls \o ": " \o msg

\* the except clause without the stack trace
wrapper_no_trace(outcome) ==
    IF outcome.raises = NoExc \/ ~IsException(outcome.raises) THEN outcome
    ELSE [raises |-> NoExc,
          message |-> "",
          value |-> [error_code |-> outcome.raises, message |-> outcome.message],
          logged |-> <<"Prediction call failed">>]

\* prediction_call.wrapper(*args, **kwargs): a call of the wrapped function
\* inside try/except Exception
wrapper(outcome) ==
    IF outcome.raises = NoExc \/ ~IsException(outcome.raises) THEN outcome
    ELSE [raises |-> NoExc,
          message |-> "",
          value |-> [error_code |-> outcome.raises,
                     message |-> outcome.message,
                     stack_trace |-> format_exc(outcome.raises, outcome.message)],
          logged |-> <<"Prediction call failed">>]

\* prediction_call(predict_fn): functools.wraps copies the __dict__ of
\* predict_fn to the wrapper and sets __wrapped__; nothing else is set
prediction_call(predict_fn) ==
    Function(predict_fn.attrs \cup {WRAPPED}, "prediction_call",
             wrapper(predict_fn.outcome))

\* a dict a predict function returned, as verify_model_output sees it
AsModelOutput(d) == ModelOutput(TRUE, DOMAIN d, JsonValue("null", <<>>))

\* plain predict functions: they return an output or raise; one may carry
\* the marker attribute, set by hand
Outcomes ==
    {Returns(o) : o \in {NotAMapping,
                         ModelOutput(TRUE, {PREDICTION_KEY},
                                     JsonValue("array", <<"number">>)),
                         ModelOutput(TRUE, {"extra"}, JsonValue("null", <<>>))}}
        \cup {Raises(cls, "bad input") :
                cls \in {ValueError, KeyError, OtherError, KeyboardInterrupt}}
PlainFunctions == {Function(a, "", o) : a \in {{}, {MARKER}}, o \in Outcomes}

\* getattr(func, '__wrapped_by_prediction_call__', False)
_is_wrapped_by_prediction_call(func) == MARKER \in func.attrs

\* a loaded model: model._model_impl.python_model, absent for a model that
\* is not a python_function model
LoadedModel(python_model) == [python_model |-> python_model]
LoadedModels ==
    {LoadedModel(None)}
        \cup {LoadedModel(Some(f)) : f \in PlainFunctions}
        \cup {LoadedModel(Some(prediction_call(f))) : f \in PlainFunctions}

\* _is_model_predict_wrapped_by_prediction_call(model)
_is_model_predict_wrapped_by_prediction_call(model) ==
    IF model.python_model = None
    THEN [raised |-> AttributeError, ret |-> FALSE]
    ELSE [raised |-> NoExc,
          ret |-> _is_wrapped_by_prediction_call(model.python_model[1])]

\* what _check_if_prediction_call_is_used prints for a loaded model:
\* `used` stays True on AttributeError
_check_if_prediction_call_is_used_print(model) ==
    LET r == _is_model_predict_wrapped_by_prediction_call(model)
        used == IF r.raised = AttributeError THEN TRUE ELSE r.ret
    IN  IF ~used THEN <<DECORATOR_WARNING>> ELSE <<>>

\* the stage of _run: load the model, inspect its predict, warn
_check_if_prediction_call_is_used ==
    /\ vpc = "DECORATOR_USAGE_CHECK"
    /\ \E model \in LoadedModels :
        StageEnd("DECORATOR_USAGE_CHECK", NoExc,
                 _check_if_prediction_call_is_used_print(model))
    /\ UNCHANGED <<model_output, metadata, st_size>>
    /\ ValidatorFrame

\* self.verify_model_output(model_output)
verify_model_output_stage ==
    /\ vpc = "OUTPUT_SHAPE_CHECK"
    /\ LET r == verify_model_output(model_output)
       IN  StageEnd("OUTPUT_SHAPE_CHECK", r.raised, r.out)
    /\ model_output' = NotAMapping
    /\ UNCHANGED <<metadata, st_size>>
    /\ ValidatorFrame

\* check_zip_size with an archive over the limit treated as an error
check_zip_size_fatal ==
    /\ vpc = "SIZE_CHECK"
    /\ \/ /\ StageEnd("SIZE_CHECK", FileNotFoundError, <<>>)
          /\ UNCHANGED st_size
       \/ \E size \in 0..MaxZipSize :
            /\ st_size' = Some(size)
            /\ IF size > model_zip_size_limit
               THEN StageEnd("SIZE_CHECK", AssertionError,
                             <<SizeWarning(model_zip_size_limit)>>)
               ELSE StageEnd("SIZE_CHECK", NoExc, <<>>)
    /\ UNCHANGED <<model_output, metadata>>
    /\ ValidatorFrame

\* check_zip_size: stat the archive, warn when it is over the limit
check_zip_size ==
    /\ vpc = "SIZE_CHECK"
    /\ \/ /\ StageEnd("SIZE_CHECK", FileNotFoundError, <<>>)
          /\ UNCHANGED st_size
       \/ \E size \in 0..MaxZipSize :
            /\ st_size' = Some(size)
            /\ StageEnd("SIZE_CHECK", NoExc,
                        IF size > model_zip_size_limit
                        THEN <<SizeWarning(model_zip_size_limit)>> ELSE <<>>)
    /\ UNCHANGED <<model_output, metadata>>
    /\ ValidatorFrame

\* __call__: what the except clause does with the exception _run raised
Caught == {ValidationError, AssertionError}

\* an except clause that catches every exception
__call__handler_any(e) ==
    [printed |-> <<FailedMsg(kwargs)>>, reraise |-> e, vpc |-> "FAILED"]

\* an except clause that does not re-raise
__call__handler_swallow(e) ==
    IF e \in Caught
    THEN [printed |-> <<FailedMsg(kwargs)>>, reraise |-> NoExc, vpc |-> "FAILED"]
    ELSE [printed |-> <<>>, reraise |-> e, vpc |-> "ERRORED"]

__call__handler(e) ==
    IF e \in Caught
    THEN [printed |-> <<FailedMsg(kwargs)>>, reraise |-> e, vpc |-> "FAILED"]
    ELSE [printed |-> <<>>, reraise |-> e, vpc |-> "ERRORED"]

__call__except ==
    /\ vpc = "except"
    /\ LET h == __call__handler(exc)
       IN  /\ out' = out \o h.printed
           /\ raised' = h.reraise
           /\ vpc' = h.vpc
    /\ UNCHANGED <<executed, exc, kwargs, model_output, metadata,
                   model_zip_size_limit, st_size, files, call, patches,
                   packaging, serving>>

\* __call__: the statement after the try, reached when _run returned
__call__epilogue_silent(kw) == <<>>

__call__epilogue(kw) == <<SucceededMsg(kw)>>

__call__return ==
    /\ vpc = "return"
    /\ out' = out \o __call__epilogue(kwargs)
    /\ vpc' = "SUCCEEDED"
    /\ UNCHANGED <<executed, exc, raised, kwargs, model_output, metadata,
                   model_zip_size_limit, st_size, files, call, patches,
                   packaging, serving>>

NextValidator ==
    \/ Call
    \/ validate_metadata_MLmodel
    \/ validate_metadata_example_request
    \/ run_model_io
    \/ _check_if_prediction_call_is_used
    \/ verify_model_output_stage
    \/ check_zip_size
    \/ __call__except
    \/ __call__return


\* ------------------------------------------------------------------------
\* Files and JSON text
\* ------------------------------------------------------------------------
MaxColumns == 1     \* most feature columns of a drawn example request

\* A text file is a sequence of tokens.
Punct(c) == [t |-> "punct", v |-> c]
Str(x) == [t |-> "string", v |-> x]

\* An example request is a dict key -> list of column names, kept as the
\* sequence of its <<key, names>> items in insertion order; {} is <<>>.
RECURSIVE dump_list(_)
dump_list(names) ==
    IF names = <<>> THEN <<>>
    ELSE IF Len(names) = 1 THEN <<Str(Head(names))>>
    ELSE <<Str(Head(names)), Punct(",")>> \o dump_list(Tail(names))

dump_item(item) ==
    <<Str(item[1]), Punct(":"), Punct("[")>> \o dump_list(item[2]) \o <<Punct("]")>>

RECURSIVE dump_items(_)
dump_items(items) ==
    IF items = <<>> THEN <<>>
    ELSE IF Len(items) = 1 THEN dump_item(Head(items))
    ELSE dump_item(Head(items)) \o <<Punct(",")>> \o dump_items(Tail(items))

\* json.dump(obj, file): the text written
json_dump(obj) == <<Punct("{")>> \o dump_items(obj) \o <<Punct("}")>>

\* json.load(file): a recursive-descent parse of the text; i is the index
\* of the next token, acc what has been read
RECURSIVE load_list(_, _, _)
load_list(text, i, acc) ==
    IF text[i] = Punct("]") THEN [val |-> acc, next |-> i + 1]
    ELSE IF text[i] = Punct(",") THEN load_list(text, i + 1, acc)
    ELSE load_list(text, i + 1, Append(acc, text[i].v))

RECURSIVE load_items(_, _, _)
load_items(text, i, acc) ==
    IF text[i] = Punct("}") THEN acc
    ELSE IF text[i] = Punct(",") THEN load_items(text, i + 1, acc)
    ELSE LET names == load_list(text, i + 3, <<>>)
         IN  load_items(text, names.next, Append(acc, <<text[i].v, names.val>>))

json_load(text) == load_items(text, 2, <<>>)

ColumnNames == {"x", "y"}
ExampleRequests ==
    {<<>>}
        \cup {<< <<"featureColumns", cols>> >> :
                cols \in SeqsUpTo(ColumnNames, MaxColumns) \ {<<>>}}
        \cup {<< <<"featureColumns", cols>>, <<"targetColumns", <<"y">>>> >> :
                cols \in SeqsUpTo({"x"}, MaxColumns) \ {<<>>}}

\* Paths.  The temporary directory exists and is empty when it is made; a
\* path under missing_dir cannot be opened for writing.
TmpDirs == {"/tmp/tmpdir"}
UserPaths == {"a_path", "missing_dir/example_request.json"}
Unwritable == {"missing_dir/example_request.json"}
TmpFile(tmp_dir) == tmp_dir \o "/" \o EXAMPLE_REQUEST \o ".json"
MLmodelPath == "model/MLmodel"
SysDepsPath == "model/sys_dependencies.txt"
Paths ==
    UserPaths \cup {TmpFile(d) : d \in TmpDirs} \cup {MLmodelPath, SysDepsPath}

exists(fs, path) == path \in DOMAIN fs /\ fs[path] # None

\* open(path, 'w') and a write of the whole text
write(fs, path, text) == [fs EXCEPT ![path] = Some(text)]

\* ------------------------------------------------------------------------
\* register_example_request
\* ------------------------------------------------------------------------
ArtifactKeys == {EXAMPLE_REQUEST, "model_path"}
ArtifactMaps == UNION {[K -> UserPaths] : K \in SUBSET ArtifactKeys}

\* {EXAMPLE_REQUEST: path, **(artifacts or {})}: later keys win
Defaulted(key, value, d) ==
    [k \in DOMAIN d \cup {key} |-> IF k \in DOMAIN d THEN d[k] ELSE value]

EmptyDict == [k \in {} |-> ""]
Returned(e, ret, fs) == [raised |-> e, ret |-> ret, files |-> fs]

\* an xor in the first assert: exactly one of the two may be set
register_example_request_xor(fs, tmp_dir, example_request, artifacts) ==
    IF (example_request = None) = (artifacts = None)
    THEN Returned(AssertionError, None, fs)
    ELSE IF example_request # None /\ example_request[1] # <<>>
    THEN LET arts == Defaulted(EXAMPLE_REQUEST, TmpFile(tmp_dir), EmptyDict)
             target == arts[EXAMPLE_REQUEST]
         IN  Returned(NoExc, Some(arts),
                      write(fs, target, json_dump(example_request[1])))
    ELSE IF artifacts = None
         THEN Returned(TypeError, None, fs)
         ELSE IF EXAMPLE_REQUEST \notin DOMAIN artifacts[1]
         THEN Returned(AssertionError, None, fs)
         ELSE IF ~exists(fs, artifacts[1][EXAMPLE_REQUEST])
         THEN Returned(AssertionError, None, fs)
         ELSE Returned(NoExc, artifacts, fs)

\* the existence of the referenced file is not asserted
register_example_request_unchecked(fs, tmp_dir, example_request, artifacts) ==
    IF example_request = None /\ artifacts = None
    THEN Returned(AssertionError, None, fs)
    ELSE IF example_request # None /\ example_request[1] # <<>>
    THEN LET arts == Defaulted(EXAMPLE_REQUEST, TmpFile(tmp_dir),
                               IF artifacts = None THEN EmptyDict ELSE artifacts[1])
             target == arts[EXAMPLE_REQUEST]
         IN  IF target \in Unwritable
             THEN Returned(FileNotFoundError, None, fs)
             ELSE Returned(NoExc, Some(arts),
                           write(fs, target, json_dump(example_request[1])))
    ELSE IF artifacts = None
         THEN Returned(TypeError, None, fs)
         ELSE IF EXAMPLE_REQUEST \notin DOMAIN artifacts[1]
         THEN Returned(AssertionError, None, fs)
         ELSE Returned(NoExc, artifacts, fs)

\* the request always written to the temp file, the entry left as supplied
register_example_request_tmp(fs, tmp_dir, example_request, artifacts) ==
    IF example_request = None /\ artifacts = None
    THEN Returned(AssertionError, None, fs)
    ELSE IF example_request # None /\ example_request[1] # <<>>
    THEN LET arts == Defaulted(EXAMPLE_REQUEST, TmpFile(tmp_dir),
                               IF artifacts = None THEN EmptyDict ELSE artifacts[1])
         IN  Returned(NoExc, Some(arts),
                      write(fs, TmpFile(tmp_dir), json_dump(example_request[1])))
    ELSE IF artifacts = None
         THEN Returned(TypeError, None, fs)
         ELSE IF EXAMPLE_REQUEST \notin DOMAIN artifacts[1]
         THEN Returned(AssertionError, None, fs)
         ELSE IF ~exists(fs, artifacts[1][EXAMPLE_REQUEST])
         THEN Returned(AssertionError, None, fs)
         ELSE Returned(NoExc, artifacts, fs)

\* register_example_request(tmp_dir, example_request, artifacts): what it
\* raises, what it returns and the file system it leaves.  `if
\* example_request:` is false for None and for an empty dict; `in` on a None
\* artifacts is a TypeError.
register_example_request(fs, tmp_dir, example_request, artifacts) ==
    IF example_request = None /\ artifacts = None
    THEN Returned(AssertionError, None, fs)
    ELSE IF example_request # None /\ example_request[1] # <<>>
    THEN LET arts == Defaulted(EXAMPLE_REQUEST, TmpFile(tmp_dir),
                               IF artifacts = None THEN EmptyDict ELSE artifacts[1])
             target == arts[EXAMPLE_REQUEST]
         IN  IF target \in Unwritable
             THEN Returned(FileNotFoundError, None, fs)
             ELSE Returned(NoExc, Some(arts),
                           write(fs, target, json_dump(example_request[1])))
    ELSE IF artifacts = None
         THEN Returned(TypeError, None, fs)
         ELSE IF EXAMPLE_REQUEST \notin DOMAIN artifacts[1]
         THEN Returned(AssertionError, None, fs)
         ELSE IF ~exists(fs, artifacts[1][EXAMPLE_REQUEST])
         THEN Returned(AssertionError, None, fs)
         ELSE Returned(NoExc, artifacts, fs)

NoCall == [op |-> "none"]

ValidatorVars ==
    <<vpc, executed, exc, raised, kwargs, model_output, metadata,
      model_zip_size_limit, st_size>>

\* a call register_example_request(tmp_dir, example_request, artifacts)
register_example_request_call ==
    \E tmp_dir \in TmpDirs,
       example_request \in {None} \cup {Some(r) : r \in ExampleRequests},
       artifacts \in {None} \cup {Some(a) : a \in ArtifactMaps} :
        LET r == register_example_request(files, tmp_dir, example_request, artifacts)
        IN  /\ files' = r.files
            /\ call' = [op |-> "register_example_request",
                        tmp_dir |-> tmp_dir,
                        example_request |-> example_request,
                        artifacts |-> artifacts,
                        pre |-> files,
                        raised |-> r.raised,
                        ret |-> r.ret]
            /\ UNCHANGED <<out, patches>>
            /\ UNCHANGED ValidatorVars
            /\ UNCHANGED <<packaging, serving>>

\* a call ModelValidator.verify_model_output(model_output); the function
\* reads and writes nothing but its argument, so one call is drawn
verify_model_output_call ==
    /\ call = NoCall
    /\ \E o \in ModelOutputs :
        LET r == verify_model_output(o)
        IN  /\ call' = [op |-> "verify_model_output",
                        model_output |-> o,
                        raised |-> r.raised]
            /\ out' = r.out
    /\ UNCHANGED <<files, patches>>
    /\ UNCHANGED ValidatorVars
    /\ UNCHANGED <<packaging, serving>>


\* ------------------------------------------------------------------------
\* The descriptor (MLmodel, YAML) and _add_metadata
\* ------------------------------------------------------------------------
MaxGpus == 2        \* largest num_gpus drawn
MaxPatches == 1     \* calls of _add_metadata in one behaviour

\* Python scalars in a YAML document
PyNone == <<"none">>
PyStr(x) == <<"str", x>>
PyInt(n) == <<"int", n>>

\* A nested dict of scalars is the function from the key path of each leaf
\* to the leaf.
F_ER_PATH == <<"flavors", "python_function", "artifacts", "example_request", "path">>
F_DS_PATH == <<"flavors", "python_function", "artifacts", "dataset", "path">>
M_RS_PATH == <<"metadata", "request_schema", "path">>
M_DS_NAME == <<"metadata", "dataset", "name">>
M_DS_PATH == <<"metadata", "dataset", "path">>
M_EXPLANATIONS == <<"metadata", "explanations">>
M_GPUS == <<"metadata", "gpus">>
M_OOD == <<"metadata", "oodDetection">>

\* every leaf the model uses, in the order yaml.dump (sort_keys=True) emits
YamlOrder ==
    <<F_DS_PATH, F_ER_PATH, M_DS_NAME, M_DS_PATH, M_EXPLANATIONS, M_GPUS,
      M_OOD, M_RS_PATH>>

IsPrefix(p, q) == Len(p) <= Len(q) /\ SubSeq(q, 1, Len(p)) = p

\* yaml.dump(cfg, file): one line per leaf, keys sorted
yaml_dump(cfg) ==
    LET present == SelectSeq(YamlOrder, LAMBDA k : k \in DOMAIN cfg)
    IN  [i \in 1..Len(present) |-> <<present[i], cfg[present[i]]>>]

\* yaml.safe_load(file)
yaml_load(text) ==
    [k \in {text[i][1] : i \in 1..Len(text)} |->
        text[CHOOSE i \in 1..Len(text) : text[i][1] = k][2]]

_get_field(yml, path) ==
    IF path \in DOMAIN yml THEN yml[path]
    ELSE IF \E k \in DOMAIN yml : IsPrefix(path, k) THEN <<"dict">>
    ELSE PyNone

\* cfg.update(key=subtree): the subtree under `key` is replaced
Update(cfg, key, subtree) ==
    [k \in {j \in DOMAIN cfg : Head(j) # key} \cup DOMAIN subtree |->
        IF k \in DOMAIN subtree THEN subtree[k] ELSE cfg[k]]

\* `x or 'default'` for an Optional[str]: None and '' are falsy
OrDefault(x) == IF x = None \/ x[1] = "" THEN "default" ELSE x[1]

ACCEPTED_EXPLANATIONS == {"disabled", "default", "plotly"}
ACCEPTED_OODD == {"disabled", "default"}

\* the asserts of _add_metadata, in order: the first that fails.  With
\* num_gpus None the comparison itself raises.
ArgError(explanations, oodd, num_gpus) ==
    IF OrDefault(explanations) \notin ACCEPTED_EXPLANATIONS THEN AssertionError
    ELSE IF OrDefault(oodd) \notin ACCEPTED_OODD THEN AssertionError
    ELSE IF num_gpus = None THEN TypeError
    ELSE IF ~(num_gpus[1] >= 0) THEN AssertionError
    ELSE NoExc

\* the metadata section with the request schema path fixed, as
\* pynavio.utils.common._add_metadata builds it
MetadataSection_fixed_path(cfg, dataset, explanations, oodd, num_gpus) ==
    LET base == [k \in {M_RS_PATH, M_EXPLANATIONS, M_OOD} |->
                    IF k = M_RS_PATH THEN PyStr("artifacts/example_request.json")
                    ELSE IF k = M_EXPLANATIONS THEN PyStr(OrDefault(explanations))
                    ELSE PyStr(OrDefault(oodd))]
    IN  IF num_gpus[1] > 0
        THEN [k \in DOMAIN base \cup {M_GPUS} |->
                IF k = M_GPUS THEN PyInt(num_gpus[1]) ELSE base[k]]
        ELSE base

\* the metadata section built for a call whose asserts pass
MetadataSection(cfg, dataset, explanations, oodd, num_gpus) ==
    LET base == [k \in {M_RS_PATH, M_EXPLANATIONS, M_OOD} |->
                    IF k = M_RS_PATH THEN _get_field(cfg, F_ER_PATH)
                    ELSE IF k = M_EXPLANATIONS THEN PyStr(OrDefault(explanations))
                    ELSE PyStr(OrDefault(oodd))]
        withData ==
            IF dataset = None THEN base
            ELSE [k \in DOMAIN base \cup {M_DS_NAME, M_DS_PATH} |->
                    IF k = M_DS_NAME THEN dataset[1].name
                    ELSE IF k = M_DS_PATH THEN _get_field(cfg, F_DS_PATH)
                    ELSE base[k]]
    IN  IF num_gpus[1] > 0
        THEN [k \in DOMAIN withData \cup {M_GPUS} |->
                IF k = M_GPUS THEN PyInt(num_gpus[1]) ELSE withData[k]]
        ELSE withData

\* the caller's dataset dict after the call: its path is overwritten
\* before any assert runs
DatasetAfter(cfg, dataset) ==
    IF dataset = None THEN None
    ELSE Some([dataset[1] EXCEPT !.path = _get_field(cfg, F_DS_PATH)])

Patched(e, fs, dataset) == [raised |-> e, files |-> fs, dataset |-> dataset]

\* the descriptor rewritten as soon as it is read, before the asserts
_add_metadata_write_first(fs, dataset, explanations, oodd, num_gpus) ==
    IF ~exists(fs, MLmodelPath) THEN Patched(FileNotFoundError, fs, dataset)
    ELSE LET cfg == yaml_load(fs[MLmodelPath][1])
             e == ArgError(explanations, oodd, num_gpus)
             early == Update(cfg, "metadata",
                             [k \in {M_RS_PATH} |-> _get_field(cfg, F_ER_PATH)])
         IN  IF e # NoExc
             THEN Patched(e, write(fs, MLmodelPath, yaml_dump(early)),
                          DatasetAfter(cfg, dataset))
             ELSE Patched(NoExc,
                          write(fs, MLmodelPath, yaml_dump(Update(cfg, "metadata",
                              MetadataSection(cfg, dataset, explanations, oodd, num_gpus)))),
                          DatasetAfter(cfg, dataset))

\* _add_metadata(model_path, dataset, explanations, oodd, num_gpus)
_add_metadata(fs, dataset, explanations, oodd, num_gpus) ==
    IF ~exists(fs, MLmodelPath) THEN Patched(FileNotFoundError, fs, dataset)
    ELSE LET cfg == yaml_load(fs[MLmodelPath][1])
             e == ArgError(explanations, oodd, num_gpus)
         IN  IF e # NoExc
             THEN Patched(e, fs, DatasetAfter(cfg, dataset))
             ELSE Patched(NoExc,
                          write(fs, MLmodelPath, yaml_dump(Update(cfg, "metadata",
                              MetadataSection(cfg, dataset, explanations, oodd, num_gpus)))),
                          DatasetAfter(cfg, dataset))

ExplanationArgs ==
    {None} \cup {Some(x) : x \in {"", "disabled", "default", "plotly", "shap"}}
OoddArgs == {None} \cup {Some(x) : x \in {"", "disabled", "default", "plotly"}}
GpuArgs == {None} \cup {Some(n) : n \in -1..MaxGpus}
DatasetArgs == {None, Some([name |-> PyStr("train"), path |-> PyStr("data.csv")])}

\* a call _add_metadata(model_path, dataset, explanations, oodd, num_gpus)
_add_metadata_call ==
    /\ patches < MaxPatches
    /\ patches' = patches + 1
    /\ \E dataset \in DatasetArgs, explanations \in ExplanationArgs,
          oodd \in OoddArgs, num_gpus \in GpuArgs :
        LET r == _add_metadata(files, dataset, explanations, oodd, num_gpus)
        IN  /\ files' = r.files
            /\ call' = [op |-> "_add_metadata",
                        dataset |-> dataset,
                        explanations |-> explanations,
                        oodd |-> oodd,
                        num_gpus |-> num_gpus,
                        pre |-> files,
                        raised |-> r.raised,
                        dataset_after |-> r.dataset]
            /\ UNCHANGED out
            /\ UNCHANGED ValidatorVars
            /\ UNCHANGED <<packaging, serving>>

\* ------------------------------------------------------------------------
\* Code-path inference (infer_imported_code_path)
\* ------------------------------------------------------------------------
MaxImports == 2     \* imports parse_imports reports for the entry file

StopIteration == "StopIteration"

\* A path is the sequence of its parts (Path.parts); the empty string is
\* the empty sequence.
Parent(p) == SubSeq(p, 1, Len(p) - 1)
parents(p) == {SubSeq(p, 1, i) : i \in 1..(Len(p) - 1)}

PROJ == <<"/", "proj">>
ENTRY == PROJ \o <<"main.py">>
VENV == PROJ \o <<"venv">>
SITE_PACKAGES == VENV \o <<"site-packages">>

\* a module object: __file__ and __path__[0], each None when absent
ModuleObject(file, path) == [file |-> file, path |-> path]

\* sys.modules of the interpreter that runs the inference: a local package
\* with a subpackage, a local single-file module, an installed single-file
\* module and an installed package, a builtin, and two modules registered
\* under a dotted name whose base name is not registered
sys_modules ==
    LET pkg == PROJ \o <<"pkg">>
        utils == pkg \o <<"utils">>
        vendored == PROJ \o <<"libs", "vendored">>
    IN  (<<"pkg">> :> ModuleObject(Some(pkg \o <<"__init__.py">>), Some(pkg)))
     @@ (<<"pkg", "utils">> :>
            ModuleObject(Some(utils \o <<"__init__.py">>), Some(utils)))
     @@ (<<"pkg", "utils", "common">> :>
            ModuleObject(Some(utils \o <<"common.py">>), None))
     @@ (<<"helpers">> :> ModuleObject(Some(PROJ \o <<"helpers.py">>), None))
     @@ (<<"six">> :> ModuleObject(Some(SITE_PACKAGES \o <<"six.py">>), None))
     @@ (<<"yaml">> :>
            ModuleObject(Some(SITE_PACKAGES \o <<"yaml", "__init__.py">>),
                         Some(SITE_PACKAGES \o <<"yaml">>)))
     @@ (<<"sys">> :> ModuleObject(None, None))
     @@ (<<"vendored", "tool">> :>
            ModuleObject(Some(vendored \o <<"tool.py">>), None))
     @@ (<<"alias", "mod">> :>
            ModuleObject(Some(PROJ \o <<"other", "mod.py">>), None))

builtin_module_names == {<<"sys">>}

\* the names parse_imports can report: registered ones and one that is not
ImportNames == DOMAIN sys_modules \cup {<<"missing">>}

\* the files of the project, and the paths that exist
ProjectFiles ==
    {ENTRY, PROJ \o <<"libs", "vendored", "__init__.py">>}
        \cup {sys_modules[n].file[1] :
                n \in {m \in DOMAIN sys_modules : sys_modules[m].file # None}}
Existing == ProjectFiles \cup UNION {parents(f) : f \in ProjectFiles}

\* get_module_path(module): the directory of the module's file
get_module_path(module) == Parent(module.file[1])

CodePath(e, path) == [raised |-> e, ret |-> path]

Last(s) == s[Len(s)]
MaxOf(S) == CHOOSE i \in S : \A j \in S : j <= i

\* _get_code_path(module_name, path)
_get_code_path(module_name, path) ==
    LET module_base == Head(SelectSeq(module_name, LAMBDA part : part # ""))
    IN  IF <<module_base>> \in DOMAIN sys_modules
        THEN IF sys_modules[<<module_base>>].path # None
             THEN CodePath(NoExc, sys_modules[<<module_base>>].path[1])
             ELSE CodePath(NoExc, <<>>)
        ELSE LET found == {i \in 1..Len(path) : path[i] = module_base}
             IN  IF found = {} THEN CodePath(StopIteration, <<>>)
                 ELSE CodePath(NoExc, SubSeq(path, 1, MaxOf(found)))

\* _is_not_in_ignore_paths(module, to_ignore_paths)
_is_not_in_ignore_paths(module, to_ignore_paths) ==
    ~\E to_ignore_path \in to_ignore_paths :
        to_ignore_path \in parents(get_module_path(module))

\* the test of get_name_to_module_path_map on one imported name
IsMapped(name, to_ignore_paths) ==
    /\ name \in DOMAIN sys_modules
    /\ name \notin builtin_module_names
    /\ sys_modules[name].file # None
    /\ _is_not_in_ignore_paths(sys_modules[name], to_ignore_paths)

\* get_name_to_module_path_map(imported_modules, to_ignore_paths): the dict
\* as the sequence of its items, in insertion order
RECURSIVE get_name_to_module_path_map(_, _)
get_name_to_module_path_map(imported_modules, to_ignore_paths) ==
    IF imported_modules = <<>> THEN <<>>
    ELSE LET before == get_name_to_module_path_map(
                            SubSeq(imported_modules, 1, Len(imported_modules) - 1),
                            to_ignore_paths)
             name == Last(imported_modules)
         IN  IF IsMapped(name, to_ignore_paths)
                /\ ~\E i \in 1..Len(before) : before[i][1] = name
             THEN Append(before, <<name, get_module_path(sys_modules[name])>>)
             ELSE before

IsDir(p) == p \in Existing \ ProjectFiles

\* _generate_default_to_ignore_dirs(path): the directories below `path`
\* named like a virtual environment or site-packages
_generate_default_to_ignore_dirs(path) ==
    {d \in Existing : /\ IsDir(d)
                      /\ path \in parents(d)
                      /\ Last(d) \in {"venv", "site-packages"}}

\* the defaults collected for the entry path and every parent of it
DefaultIgnorePaths(path) ==
    UNION {_generate_default_to_ignore_dirs(p) : p \in {path} \cup parents(path)}

Range(s) == {s[i] : i \in 1..Len(s)}
MinOf(S) == CHOOSE i \in S : \A j \in S : i <= j

\* list(set(code_paths)): the distinct entries, in any order
list_set(s) ==
    {q \in [1..Cardinality(Range(s)) -> Range(s)] : Range(q) = Range(s)}

Inferred(e, ignores, name_to_module, code_paths) ==
    [raised |-> e, ignores |-> ignores, name_to_module |-> name_to_module,
     code_paths |-> code_paths]

\* infer_imported_code_path with the defaults added to the supplied paths
infer_imported_code_path_with_defaults(path, to_ignore_paths, imported_modules) ==
    LET explicit == IF to_ignore_paths = None THEN {} ELSE to_ignore_paths[1]
    IN  IF \E p \in {path} \cup explicit : p \notin Existing
        THEN Inferred(AssertionError, explicit, <<>>, <<>>)
        ELSE LET ignores == explicit \cup DefaultIgnorePaths(path)
                 name_to_module ==
                    get_name_to_module_path_map(imported_modules, ignores)
                 results == [i \in 1..Len(name_to_module) |->
                    _get_code_path(name_to_module[i][1], name_to_module[i][2])]
                 failed == {i \in 1..Len(results) : results[i].raised # NoExc}
             IN  IF failed # {}
                 THEN Inferred(results[MinOf(failed)].raised, ignores,
                               name_to_module, <<>>)
                 ELSE Inferred(NoExc, ignores, name_to_module,
                        SelectSeq([i \in 1..Len(results) |-> results[i].ret],
                                  LAMBDA p : p # <<>>))

\* infer_imported_code_path(path, to_ignore_paths); imported_modules is
\* what parse_imports reports for the entry file
infer_imported_code_path(path, to_ignore_paths, imported_modules) ==
    LET explicit == IF to_ignore_paths = None THEN {} ELSE to_ignore_paths[1]
    IN  IF \E p \in {path} \cup explicit : p \notin Existing
        THEN Inferred(AssertionError, explicit, <<>>, <<>>)
        ELSE LET ignores == IF explicit = {} THEN DefaultIgnorePaths(path)
                            ELSE explicit
                 name_to_module ==
                    get_name_to_module_path_map(imported_modules, ignores)
                 results == [i \in 1..Len(name_to_module) |->
                    _get_code_path(name_to_module[i][1], name_to_module[i][2])]
                 failed == {i \in 1..Len(results) : results[i].raised # NoExc}
             IN  IF failed # {}
                 THEN Inferred(results[MinOf(failed)].raised, ignores,
                               name_to_module, <<>>)
                 ELSE Inferred(NoExc, ignores, name_to_module,
                        SelectSeq([i \in 1..Len(results) |-> results[i].ret],
                                  LAMBDA p : p # <<>>))

EntryPaths == {ENTRY, PROJ \o <<"gone.py">>}
IgnoreArgs ==
    {None} \cup {Some(S) : S \in {{}, {PROJ \o <<"pkg", "utils">>}, {VENV},
                                  {SITE_PACKAGES}, {PROJ \o <<"gone">>},
                                  {PROJ \o <<"pkg", "utils">>, VENV}}}

\* a call infer_imported_code_path(path, to_ignore_paths)
infer_imported_code_path_call ==
    /\ call = NoCall
    /\ \E path \in EntryPaths, to_ignore_paths \in IgnoreArgs,
          imported_modules \in SeqsUpTo(ImportNames, MaxImports) :
        LET r == infer_imported_code_path(path, to_ignore_paths, imported_modules)
        IN  \E ret \in list_set(r.code_paths) :
                call' = [op |-> "infer_imported_code_path",
                         path |-> path,
                         to_ignore_paths |-> to_ignore_paths,
                         imported_modules |-> imported_modules,
                         ignores |-> r.ignores,
                         name_to_module |-> r.name_to_module,
                         raised |-> r.raised,
                         ret |-> ret]
    /\ UNCHANGED <<out, files, patches>>
    /\ UNCHANGED ValidatorVars
    /\ UNCHANGED <<packaging, serving>>

\* ------------------------------------------------------------------------
\* make_example_request
\* ------------------------------------------------------------------------
MaxRowKeys == 3     \* most keys of a drawn row
MaxMinRows == 2     \* largest min_rows drawn

\* A row is a dict column name -> sample value, kept as the sequence of its
\* <<name, Python type of the value>> items in insertion order.
RowKeys == {"x", "y", "ts"}
SampleTypes == {"int", "bool"}
Rows ==
    {r \in SeqsUpTo(RowKeys \X SampleTypes, MaxRowKeys) :
        \A i, j \in 1..Len(r) : r[i][1] = r[j][1] => i = j}

HasKey(row, name) == \E i \in 1..Len(row) : row[i][1] = name
TypeOf(row, name) == row[CHOOSE i \in 1..Len(row) : row[i][1] = name][2]

\* type_names: the Python types a column type is known for
type_names == [t \in {"int", "float", "str"} |->
                IF t = "str" THEN "string" ELSE "float"]

\* _column_spec(name, _type): row[name] and type_names[...] raise KeyError
_column_spec(row, name, _type) ==
    IF ~HasKey(row, name) THEN [raised |-> KeyError]
    ELSE IF _type = None /\ TypeOf(row, name) \notin DOMAIN type_names
    THEN [raised |-> KeyError]
    ELSE [raised |-> NoExc,
          name |-> name,
          sampleData |-> TypeOf(row, name),
          type |-> IF _type # None THEN _type[1]
                   ELSE type_names[TypeOf(row, name)],
          nullable |-> FALSE]

Example(e, features, targets, datetime, min_rows) ==
    [raised |-> e, featureColumns |-> features, targetColumns |-> targets,
     dateTimeColumn |-> datetime, minimumNumberRows |-> min_rows]
Failure(e) == Example(e, <<>>, <<>>, None, None)

\* make_example_request with every key of the row taken as a feature
make_example_request_all_features(row, target, datetime_column, min_rows) ==
    IF datetime_column = Some(target) THEN Failure(AssertionError)
    ELSE
    LET specs == [i \in 1..Len(row) |-> _column_spec(row, row[i][1], None)]
        target_spec == _column_spec(row, target, None)
        example == Example(NoExc, specs, <<target_spec>>, None, None)
    IN  IF \E i \in 1..Len(specs) : specs[i].raised # NoExc THEN Failure(KeyError)
        ELSE IF target_spec.raised # NoExc THEN Failure(KeyError)
        ELSE IF datetime_column = None THEN example
        ELSE LET dt == _column_spec(row, datetime_column[1], Some("timestamp"))
             IN  IF dt.raised # NoExc THEN Failure(KeyError)
                 ELSE IF min_rows = None
                 THEN [example EXCEPT !.dateTimeColumn = Some(dt)]
                 ELSE IF ~(min_rows[1] > 0) THEN Failure(AssertionError)
                 ELSE [example EXCEPT !.dateTimeColumn = Some(dt),
                                      !.minimumNumberRows = min_rows]

\* make_example_request(row, target, datetime_column, min_rows)
make_example_request(row, target, datetime_column, min_rows) ==
    IF datetime_column = Some(target) THEN Failure(AssertionError)
    ELSE
    LET names == SelectSeq([i \in 1..Len(row) |-> row[i][1]],
                           LAMBDA name : /\ name # target
                                         /\ datetime_column # Some(name))
        specs == [i \in 1..Len(names) |-> _column_spec(row, names[i], None)]
        target_spec == _column_spec(row, target, None)
        example == Example(NoExc, specs, <<target_spec>>, None, None)
    IN  IF \E i \in 1..Len(specs) : specs[i].raised # NoExc THEN Failure(KeyError)
        ELSE IF target_spec.raised # NoExc THEN Failure(KeyError)
        ELSE IF datetime_column = None THEN example
        ELSE LET dt == _column_spec(row, datetime_column[1], Some("timestamp"))
             IN  IF dt.raised # NoExc THEN Failure(KeyError)
                 ELSE IF min_rows = None
                 THEN [example EXCEPT !.dateTimeColumn = Some(dt)]
                 ELSE IF ~(min_rows[1] > 0) THEN Failure(AssertionError)
                 ELSE [example EXCEPT !.dateTimeColumn = Some(dt),
                                      !.minimumNumberRows = min_rows]

TargetArgs == {"x", "y", "label"}
DatetimeArgs == {None, Some("x"), Some("ts")}
MinRowsArgs == {None} \cup {Some(n) : n \in -1..MaxMinRows}

\* a call make_example_request(row, target, datetime_column, min_rows)
make_example_request_call ==
    /\ call = NoCall
    /\ \E row \in Rows, target \in TargetArgs,
          datetime_column \in DatetimeArgs, min_rows \in MinRowsArgs :
        call' = [op |-> "make_example_request",
                 row |-> row,
                 target |-> target,
                 datetime_column |-> datetime_column,
                 min_rows |-> min_rows,
                 example |-> make_example_request(row, target,
                                                  datetime_column, min_rows)]
    /\ UNCHANGED <<out, files, patches>>
    /\ UNCHANGED ValidatorVars
    /\ UNCHANGED <<packaging, serving>>

\* ------------------------------------------------------------------------
\* check_model_serving
\* ------------------------------------------------------------------------
MaxRequests == 2    \* most request bodies a caller supplies

HTTPError == "requests.HTTPError"
ConnectionError == "requests.ConnectionError"
JSONDecodeError == "requests.JSONDecodeError"

\* a response: its status code and whether its body parses as JSON
Responses == [status : {200, 302, 404, 500}, json : BOOLEAN]

\* response.raise_for_status()
raise_for_status(response) ==
    IF 400 <= response.status /\ response.status < 600 THEN HTTPError ELSE NoExc

ResponseMsg(response) ==
    Message("check_model_serving", "response.json()", ToString(response.status))

OtherVars ==
    <<vpc, executed, exc, raised, kwargs, model_output, metadata,
      model_zip_size_limit, st_size, files, call, patches, packaging>>

\* check_model_serving(model_path, port, request_bodies): subprocess.Popen
check_model_serving_call ==
    /\ serving.pc = "idle"
    /\ \E request_bodies \in {None} \cup {Some(n) : n \in 0..MaxRequests} :
        serving' = [pc |-> "sleep",
                    request_bodies |-> request_bodies,
                    launched |-> 1,
                    terminated |-> 0,
                    todo |-> 0,
                    sent |-> 0,
                    response |-> None,
                    exc |-> NoExc,
                    raised |-> NoExc]
    /\ out' = <<>>
    /\ UNCHANGED OtherVars

\* time.sleep(5); response = None
serving_sleep ==
    /\ serving.pc = "sleep"
    /\ serving' = [serving EXCEPT !.pc = "for", !.response = None]
    /\ UNCHANGED out
    /\ UNCHANGED OtherVars

\* try: for data in (request_bodies or _fetch_data(model_path)): the
\* iterable is evaluated inside the try; _fetch_data reads the descriptor
\* and the example request and gives one or two bodies
serving_for ==
    /\ serving.pc = "for"
    /\ IF serving.request_bodies # None /\ serving.request_bodies[1] > 0
       THEN serving' = [serving EXCEPT !.pc = "request",
                                       !.todo = serving.request_bodies[1]]
       ELSE \/ serving' = [serving EXCEPT !.pc = "finally",
                                          !.exc = FileNotFoundError]
            \/ \E n \in 1..2 :
                serving' = [serving EXCEPT !.pc = "request", !.todo = n]
    /\ UNCHANGED out
    /\ UNCHANGED OtherVars

\* one iteration of the loop: convert, post, raise_for_status
serving_request ==
    /\ serving.pc = "request"
    /\ \/ \E e \in {OtherError, ConnectionError} :
            serving' = [serving EXCEPT !.pc = "finally", !.exc = e]
       \/ \E r \in Responses :
            LET e == raise_for_status(r)
                todo == serving.todo - 1
            IN  serving' = [serving EXCEPT
                                !.response = Some(r),
                                !.sent = serving.sent + 1,
                                !.todo = IF e = NoExc THEN todo ELSE serving.todo,
                                !.exc = e,
                                !.pc = IF e # NoExc \/ todo = 0 THEN "finally"
                                       ELSE "request"]
    /\ UNCHANGED out
    /\ UNCHANGED OtherVars

\* the cleanup run only after a loop that did not raise
serving_terminate_no_finally ==
    /\ serving.pc = "finally"
    /\ serving' = [serving EXCEPT
                        !.pc = "print",
                        !.terminated = IF serving.exc = NoExc
                                       THEN serving.terminated + 1
                                       ELSE serving.terminated]
    /\ UNCHANGED out
    /\ UNCHANGED OtherVars

\* finally: process.terminate()
serving_terminate ==
    /\ serving.pc = "finally"
    /\ serving' = [serving EXCEPT !.pc = "print",
                                  !.terminated = serving.terminated + 1]
    /\ UNCHANGED out
    /\ UNCHANGED OtherVars

\* finally: if response is not None: print(response.json()); an exception
\* raised here replaces the one in flight
serving_print ==
    /\ serving.pc = "print"
    /\ IF serving.response = None
       THEN /\ serving' = [serving EXCEPT !.pc = "pkill"]
            /\ UNCHANGED out
       ELSE IF serving.response[1].json
       THEN /\ serving' = [serving EXCEPT !.pc = "pkill"]
            /\ out' = Append(out, ResponseMsg(serving.response[1]))
       ELSE /\ serving' = [serving EXCEPT !.pc = "done",
                                          !.raised = JSONDecodeError]
            /\ UNCHANGED out
    /\ UNCHANGED OtherVars

\* finally: subprocess.run('pkill -f gunicorn'); time.sleep(2); then the
\* exception in flight, if any, goes on to the caller
serving_pkill ==
    /\ serving.pc = "pkill"
    /\ serving' = [serving EXCEPT !.pc = "done", !.raised = serving.exc]
    /\ UNCHANGED out
    /\ UNCHANGED OtherVars

NextServing ==
    \/ check_model_serving_call
    \/ serving_sleep
    \/ serving_for
    \/ serving_request
    \/ serving_terminate
    \/ serving_print
    \/ serving_pkill

\* ------------------------------------------------------------------------
\* to_navio
\* ------------------------------------------------------------------------
MaxCodePaths == 1   \* most entries of a drawn code_path

MODEL_SIZE_LIMIT_IN_BYTES == 1000000000

\* the directories of a run: the current directory, a code directory and a
\* source file in it, the output path (relative paths resolved) and its
\* parent
CWD == <<"/", "work", "proj">>
CODE_DIR == CWD \o <<"code">>
CODE_FILE == CWD \o <<"model.py">>
OUTPUT == <<"/", "work", "out", "model">>
OUTPUT_PARENT == <<"/", "work", "out">>
is_dir(p) == p \in {CWD, CODE_DIR, OUTPUT_PARENT} \cup parents(CWD)

\* code_path: None, or a list (or another sequence type) of entries
CodeEntries == {CODE_DIR, CODE_FILE, OUTPUT_PARENT, CWD}
CodePathArgs ==
    {None} \cup {Some([list |-> l, entries |-> e]) :
                    l \in BOOLEAN, e \in SeqsUpTo(CodeEntries, MaxCodePaths)}

\* the checks of to_navio on a code_path that is not empty
CodePathError(code_path) ==
    IF code_path = None \/ code_path[1].entries = <<>> THEN NoExc
    ELSE IF ~code_path[1].list THEN TypeError
    ELSE IF \E i \in 1..Len(code_path[1].entries) :
                code_path[1].entries[i] \in parents(OUTPUT)
    THEN ValueError
    ELSE NoExc

\* _safe_code_path without the test for the current directory
_safe_code_path_cwd_allowed(code_path) ==
    IF code_path = None THEN NoExc
    ELSE IF ~\A i \in 1..Len(code_path[1].entries) :
                is_dir(code_path[1].entries[i])
    THEN AssertionError
    ELSE NoExc

\* _safe_code_path(code_path): the assertion that fails, if any
_safe_code_path(code_path) ==
    IF code_path = None THEN NoExc
    ELSE IF ~\A i \in 1..Len(code_path[1].entries) :
                is_dir(code_path[1].entries[i])
    THEN AssertionError
    ELSE IF \E i \in 1..Len(code_path[1].entries) :
                code_path[1].entries[i] = CWD
    THEN AssertionError
    ELSE NoExc

\* make_env that builds an environment from whatever it is given
make_env_lenient(pip_packages, conda_env) == NoExc

\* make_env(pip_packages, conda_packages, conda_channels, conda_env): one
\* of pip_packages and conda_env has to be set
make_env(pip_packages, conda_env) ==
    IF pip_packages = None /\ conda_env = None THEN AssertionError ELSE NoExc

\* _check_data_spec(spec): both fields present, both strings
_check_data_spec(spec) ==
    IF \A field \in {"name", "path"} :
            field \in DOMAIN spec /\ spec[field][1] = "str"
    THEN NoExc ELSE AssertionError

RECURSIVE join(_, _)
join(sep, lines) ==
    IF lines = <<>> THEN <<>>
    ELSE IF Len(lines) = 1 THEN lines
    ELSE <<Head(lines), sep>> \o join(sep, Tail(lines))

\* _add_sys_dependencies(path, sys_dependencies)
_add_sys_dependencies(fs, sys_dependencies) ==
    IF sys_dependencies = None THEN [raised |-> NoExc, files |-> fs]
    ELSE IF ~sys_dependencies[1].valid THEN [raised |-> AssertionError, files |-> fs]
    ELSE [raised |-> NoExc,
          files |-> write(fs, SysDepsPath, join("\n", sys_dependencies[1].lines))]

SysDependencyArgs ==
    {None, Some([valid |-> TRUE, lines |-> <<"libgomp1", "git">>]),
     Some([valid |-> FALSE, lines |-> <<>>])}

\* the file name an artifact is stored under in the saved model
Basename ==
    [p \in UserPaths \cup {TmpFile(d) : d \in TmpDirs} \cup {"data.csv"} |->
        IF p = "a_path" THEN "a_path"
        ELSE IF p = "data.csv" THEN "data.csv"
        ELSE "example_request.json"]

\* the descriptor mlflow.pyfunc.save_model writes for the artifacts
SavedDescriptor(artifacts) ==
    [k \in (IF EXAMPLE_REQUEST \in DOMAIN artifacts THEN {F_ER_PATH} ELSE {})
            \cup (IF "dataset" \in DOMAIN artifacts THEN {F_DS_PATH} ELSE {}) |->
        IF k = F_ER_PATH
        THEN PyStr("artifacts/" \o Basename[artifacts[EXAMPLE_REQUEST]])
        ELSE PyStr("artifacts/" \o Basename[artifacts["dataset"]])]

\* msg_kwargs of to_navio
msg_kwargs ==
    [append_to_failed_msg |-> " To disable validation set validate_model to False",
     append_to_succeeded_msg |-> " Note: Please refer to check_model_serving() method"]

ToNavioArgs ==
    [example_request : {None, Some(<< <<"featureColumns", <<"x">>>> >>)},
     artifacts : {None, Some([k \in {EXAMPLE_REQUEST} |-> "a_path"])},
     code_path : CodePathArgs,
     pip_packages : {None, Some(<<"mlflow">>)},
     conda_env : {None, Some("conda.yaml")},
     dataset : DatasetArgs,
     explanations : {None, Some("shap")},
     oodd : {None},
     num_gpus : {Some(0), Some(-1)},
     sys_dependencies : SysDependencyArgs,
     validate_model : BOOLEAN]

Prepared(e, fs, artifacts) == [raised |-> e, files |-> fs, artifacts |-> artifacts]

\* to_navio up to the registration of the example request: the checks of
\* code_path, the artifacts, the data spec, make_env, _safe_code_path and
\* register_example_request, in this order
to_navio_prepare(fs, tmp_dir, args) ==
    LET given == IF args.artifacts = None THEN EmptyDict ELSE args.artifacts[1]
        artifacts ==
            IF args.dataset = None THEN given
            ELSE [k \in DOMAIN given \cup {"dataset"} |->
                    IF k = "dataset" THEN args.dataset[1].path[2] ELSE given[k]]
    IN  IF CodePathError(args.code_path) # NoExc
        THEN Prepared(CodePathError(args.code_path), fs, given)
        ELSE IF args.dataset # None /\ _check_data_spec(args.dataset[1]) # NoExc
        THEN Prepared(AssertionError, fs, given)
        ELSE IF make_env(args.pip_packages, args.conda_env) # NoExc
        THEN Prepared(make_env(args.pip_packages, args.conda_env), fs, artifacts)
        ELSE IF _safe_code_path(args.code_path) # NoExc
        THEN Prepared(_safe_code_path(args.code_path), fs, artifacts)
        ELSE LET r == register_example_request(fs, tmp_dir, args.example_request,
                                               Some(artifacts))
             IN  IF r.raised # NoExc THEN Prepared(r.raised, r.files, artifacts)
                 ELSE Prepared(NoExc, r.files, r.ret[1])

\* leaving the `with TemporaryDirectory()` block removes the directory
Cleanup(fs, tmp_dir) == [fs EXCEPT ![TmpFile(tmp_dir)] = None]

\* shutil.rmtree(path, ignore_errors=True)
rmtree(fs) == [fs EXCEPT ![MLmodelPath] = None, ![SysDepsPath] = None]

ToNavioSteps ==
    <<"rmtree", "save_model", "_add_metadata", "_add_sys_dependencies",
      "make_archive", "ModelValidator">>

PackagingFrame ==
    UNCHANGED <<vpc, executed, exc, raised, kwargs, model_output, metadata,
                model_zip_size_limit, st_size, out, call, patches, serving>>

\* where to_navio goes after a step inside the `with` block
Step(name, e, fs, next) ==
    /\ packaging' = [packaging EXCEPT
                        !.steps = Append(packaging.steps, name),
                        !.raised = e,
                        !.pc = IF e = NoExc THEN next ELSE "raised"]
    /\ files' = IF e = NoExc THEN fs ELSE Cleanup(fs, packaging.tmp_dir)

\* to_navio(model, path, ...): from the call to the registration of the
\* example request
to_navio_call ==
    /\ packaging.pc = "idle"
    /\ \E args \in ToNavioArgs, tmp_dir \in TmpDirs :
        LET r == to_navio_prepare(files, tmp_dir, args)
        IN  /\ packaging' = [pc |-> IF r.raised = NoExc THEN "rmtree" ELSE "raised",
                             entry |-> "to_navio",
                             args |-> args,
                             tmp_dir |-> tmp_dir,
                             artifacts |-> r.artifacts,
                             steps |-> <<>>,
                             archive |-> FALSE,
                             raised |-> r.raised,
                             ret |-> None]
            /\ files' = IF r.raised = NoExc THEN r.files
                        ELSE Cleanup(r.files, tmp_dir)
    /\ PackagingFrame

\* shutil.rmtree(path, ignore_errors=True)
to_navio_rmtree ==
    /\ packaging.pc = "rmtree"
    /\ Step("rmtree", NoExc, rmtree(files), "save_model")
    /\ PackagingFrame

\* mlflow.pyfunc.save_model(path, python_model, conda_env, artifacts,
\* code_path): writes the model directory with its descriptor, or raises
to_navio_save_model ==
    /\ packaging.pc = "save_model"
    /\ \/ Step("save_model", OtherError, files, "_add_metadata")
       \/ Step("save_model", NoExc,
               write(files, MLmodelPath,
                     yaml_dump(SavedDescriptor(packaging.artifacts))),
               "_add_metadata")
    /\ PackagingFrame

\* _add_metadata(path, dataset, explanations, oodd, num_gpus)
to_navio_add_metadata ==
    /\ packaging.pc = "_add_metadata"
    /\ LET a == packaging.args
           r == _add_metadata(files, a.dataset, a.explanations, a.oodd, a.num_gpus)
       IN  Step("_add_metadata", r.raised, r.files, "_add_sys_dependencies")
    /\ PackagingFrame

\* _add_sys_dependencies(path, sys_dependencies)
to_navio_add_sys_dependencies ==
    /\ packaging.pc = "_add_sys_dependencies"
    /\ LET r == _add_sys_dependencies(files, packaging.args.sys_dependencies)
       IN  Step("_add_sys_dependencies", r.raised, r.files, "make_archive")
    /\ PackagingFrame

\* shutil.make_archive(path, 'zip', path); model_zip = Path(path + '.zip');
\* the `with` block ends
to_navio_make_archive ==
    /\ packaging.pc = "make_archive"
    /\ packaging' = [packaging EXCEPT
                        !.steps = Append(packaging.steps, "make_archive"),
                        !.archive = TRUE,
                        !.pc = "validate"]
    /\ files' = Cleanup(files, packaging.tmp_dir)
    /\ PackagingFrame

\* the validator run whatever validate_model says
to_navio_validate_always ==
    /\ packaging.pc = "validate"
    /\ packaging' = [packaging EXCEPT
                        !.steps = Append(packaging.steps, "ModelValidator"),
                        !.pc = "validating"]
    /\ kwargs' = msg_kwargs
    /\ model_zip_size_limit' = MODEL_SIZE_LIMIT_IN_BYTES
    /\ vpc' = "METADATA_CHECK"
    /\ executed' = <<>>
    /\ out' = <<>>
    /\ exc' = NoExc
    /\ raised' = NoExc
    /\ model_output' = NotAMapping
    /\ metadata' = NoMetadata
    /\ st_size' = None
    /\ UNCHANGED <<files, call, patches, serving>>

\* if validate_model: ModelValidator()(path, model_zip,
\* MODEL_SIZE_LIMIT_IN_BYTES, **msg_kwargs); otherwise return model_zip
to_navio_validate ==
    /\ packaging.pc = "validate"
    /\ IF packaging.args.validate_model
       THEN /\ packaging' = [packaging EXCEPT
                                !.steps = Append(packaging.steps, "ModelValidator"),
                                !.pc = "validating"]
            /\ kwargs' = msg_kwargs
            /\ model_zip_size_limit' = MODEL_SIZE_LIMIT_IN_BYTES
            /\ vpc' = "METADATA_CHECK"
            /\ executed' = <<>>
            /\ out' = <<>>
            /\ exc' = NoExc
            /\ raised' = NoExc
            /\ model_output' = NotAMapping
            /\ metadata' = NoMetadata
            /\ st_size' = None
       ELSE /\ packaging' = [packaging EXCEPT !.pc = "returned",
                                               !.ret = Some(OUTPUT \o <<".zip">>)]
            /\ UNCHANGED <<vpc, executed, exc, raised, kwargs, model_output,
                           metadata, model_zip_size_limit, st_size, out>>
    /\ UNCHANGED <<files, call, patches, serving>>

\* the validator has ended: its exception goes on to the caller of
\* to_navio, otherwise model_zip is returned
to_navio_return ==
    /\ packaging.pc = "validating"
    /\ vpc \in Terminal
    /\ packaging' = IF raised # NoExc
                    THEN [packaging EXCEPT !.pc = "raised", !.raised = raised]
                    ELSE [packaging EXCEPT !.pc = "returned",
                                           !.ret = Some(OUTPUT \o <<".zip">>)]
    /\ UNCHANGED files
    /\ PackagingFrame

\* ------------------------------------------------------------------------
\* to_navio_mlflow (pynavio.utils.common), the earlier entry point
\* ------------------------------------------------------------------------
\* _make_artifact(tmp_dir, example_request, artifacts): the example request
\* is always written, to the supplied path if there is one
_make_artifact(fs, tmp_dir, example_request, artifacts) ==
    LET arts == Defaulted(EXAMPLE_REQUEST, TmpFile(tmp_dir), artifacts)
        target == arts[EXAMPLE_REQUEST]
    IN  IF target \in Unwritable
        THEN Returned(FileNotFoundError, None, fs)
        ELSE Returned(NoExc, Some(arts), write(fs, target, json_dump(example_request)))

\* the metadata section pynavio.utils.common._add_metadata builds
common_metadata(dataset, explanations, oodd, num_gpus) ==
    LET base == [k \in {M_RS_PATH, M_EXPLANATIONS, M_OOD} |->
                    IF k = M_RS_PATH THEN PyStr("artifacts/example_request.json")
                    ELSE IF k = M_EXPLANATIONS THEN PyStr(OrDefault(explanations))
                    ELSE PyStr(OrDefault(oodd))]
        withData ==
            IF dataset = None THEN base
            ELSE [k \in DOMAIN base \cup {M_DS_NAME, M_DS_PATH} |->
                    IF k = M_DS_NAME THEN dataset[1].name
                    ELSE IF k = M_DS_PATH THEN dataset[1].path
                    ELSE base[k]]
    IN  IF num_gpus[1] > 0
        THEN [k \in DOMAIN withData \cup {M_GPUS} |->
                IF k = M_GPUS THEN PyInt(num_gpus[1]) ELSE withData[k]]
        ELSE withData

\* pynavio.utils.common._add_metadata(model_path, dataset, explanations,
\* oodd, num_gpus)
common_add_metadata(fs, dataset, explanations, oodd, num_gpus) ==
    IF ~exists(fs, MLmodelPath) THEN Patched(FileNotFoundError, fs, dataset)
    ELSE LET cfg == yaml_load(fs[MLmodelPath][1])
             e == ArgError(explanations, oodd, num_gpus)
         IN  IF e # NoExc
             THEN Patched(e, fs, dataset)
             ELSE Patched(NoExc,
                          write(fs, MLmodelPath, yaml_dump(Update(cfg, "metadata",
                              common_metadata(dataset, explanations, oodd, num_gpus)))),
                          dataset)

Outcome(e, fs, steps, archive) ==
    [raised |-> e, files |-> fs, steps |-> steps, archive |-> archive]

\* to_navio_mlflow after its precondition: the `with` block, load_model and
\* make_archive
to_navio_mlflow_body(fs, tmp_dir, args, saved, loaded) ==
    LET given == IF args.artifacts = None THEN EmptyDict ELSE args.artifacts[1]
        arts1 == IF args.dataset = None THEN given
                 ELSE [k \in DOMAIN given \cup {"dataset"} |->
                         IF k = "dataset" THEN args.dataset[1].path[2] ELSE given[k]]
        dataset == IF args.dataset = None THEN None
                   ELSE Some([args.dataset[1] EXCEPT
                                !.path = PyStr("artifacts/" \o Basename[args.dataset[1].path[2]])])
        made == _make_artifact(fs, tmp_dir, args.example_request, arts1)
        removed == rmtree(made.files)
        written == write(removed, MLmodelPath, yaml_dump(SavedDescriptor(made.ret[1])))
        patched == common_add_metadata(written, dataset, args.explanations,
                                       args.oodd, args.num_gpus)
    IN  IF args.dataset # None /\ _check_data_spec(args.dataset[1]) # NoExc
        THEN Outcome(AssertionError, fs, <<>>, FALSE)
        ELSE IF _safe_code_path(args.code_path) # NoExc
        THEN Outcome(AssertionError, fs, <<>>, FALSE)
        ELSE IF made.raised # NoExc
        THEN Outcome(made.raised, Cleanup(made.files, tmp_dir), <<>>, FALSE)
        ELSE IF ~saved
        THEN Outcome(OtherError, Cleanup(removed, tmp_dir),
                     <<"rmtree", "save_model">>, FALSE)
        ELSE IF patched.raised # NoExc
        THEN Outcome(patched.raised, Cleanup(patched.files, tmp_dir),
                     <<"rmtree", "save_model", "_add_metadata">>, FALSE)
        ELSE IF ~loaded
        THEN Outcome(OtherError, Cleanup(patched.files, tmp_dir),
                     <<"rmtree", "save_model", "_add_metadata", "load_model">>, FALSE)
        ELSE Outcome(NoExc, Cleanup(patched.files, tmp_dir),
                     <<"rmtree", "save_model", "_add_metadata", "load_model",
                       "make_archive">>, TRUE)

\* to_navio_mlflow(model, example_request, path, pip_packages, code_path,
\* ..., conda_env, artifacts, dataset, explanations, oodd, num_gpus): what
\* it raises, the file system it leaves and the steps it ran.  `saved` and
\* `loaded` say whether mlflow's save_model and load_model succeed.
to_navio_mlflow(fs, tmp_dir, args, saved, loaded) ==
    IF args.pip_packages = None /\ args.conda_env = None
    THEN Outcome(AssertionError, fs, <<>>, FALSE)
    ELSE to_navio_mlflow_body(fs, tmp_dir, args, saved, loaded)

LegacyArgs ==
    [example_request : {<< <<"featureColumns", <<"x">>>> >>},
     artifacts : {None, Some([k \in {EXAMPLE_REQUEST} |-> "a_path"])},
     code_path : CodePathArgs,
     pip_packages : {None, Some(<<"mlflow">>)},
     conda_env : {None, Some("conda.yaml")},
     dataset : DatasetArgs,
     explanations : {None, Some("shap")},
     oodd : {None},
     num_gpus : {Some(0), Some(-1)}]

\* a call of to_navio_mlflow
to_navio_mlflow_call ==
    /\ packaging.pc = "idle"
    /\ \E args \in LegacyArgs, tmp_dir \in TmpDirs, saved \in BOOLEAN, loaded \in BOOLEAN :
        LET r == to_navio_mlflow(files, tmp_dir, args, saved, loaded)
        IN  /\ packaging' = [pc |-> IF r.raised = NoExc THEN "returned" ELSE "raised",
                             entry |-> "to_navio_mlflow",
                             args |-> args,
                             tmp_dir |-> tmp_dir,
                             artifacts |-> EmptyDict,
                             steps |-> r.steps,
                             archive |-> r.archive,
                             raised |-> r.raised,
                             ret |-> IF r.raised = NoExc
                                     THEN Some(OUTPUT \o <<".zip">>) ELSE None]
            /\ files' = r.files
    /\ PackagingFrame

NextPackaging ==
    \/ to_navio_call
    \/ to_navio_mlflow_call
    \/ to_navio_rmtree
    \/ to_navio_save_model
    \/ to_navio_add_metadata
    \/ to_navio_add_sys_dependencies
    \/ to_navio_make_archive
    \/ to_navio_validate
    \/ validate_metadata_MLmodel
    \/ validate_metadata_example_request
    \/ run_model_io
    \/ _check_if_prediction_call_is_used
    \/ verify_model_output_stage
    \/ check_zip_size
    \/ __call__except
    \/ __call__return
    \/ to_navio_return

\* ------------------------------------------------------------------------
\* Calls of prediction_call and of _check_if_prediction_call_is_used
\* ------------------------------------------------------------------------
\* a function is decorated with prediction_call and the wrapper is called
prediction_call_call ==
    /\ call = NoCall
    /\ \E predict_fn \in PlainFunctions :
        call' = [op |-> "prediction_call",
                 predict_fn |-> predict_fn,
                 wrapper |-> prediction_call(predict_fn),
                 result |-> prediction_call(predict_fn).outcome]
    /\ UNCHANGED <<out, files, patches, packaging, serving>>
    /\ UNCHANGED ValidatorVars

\* a call ModelValidator._check_if_prediction_call_is_used(model_path)
_check_if_prediction_call_is_used_call ==
    /\ call = NoCall
    /\ \E model \in LoadedModels :
        /\ call' = [op |-> "_check_if_prediction_call_is_used", model |-> model]
        /\ out' = out \o _check_if_prediction_call_is_used_print(model)
    /\ UNCHANGED <<files, patches, packaging, serving>>
    /\ UNCHANGED ValidatorVars

NextDecorator ==
    \/ prediction_call_call
    \/ _check_if_prediction_call_is_used_call

\* ------------------------------------------------------------------------
\* Initial states and specifications
\* ------------------------------------------------------------------------
\* MLmodel as mlflow's save_model leaves it: the artifacts that were
\* registered, and no metadata section yet
SavedDescriptors ==
    {[k \in K |-> IF k = F_ER_PATH THEN PyStr("artifacts/example_request.json")
                  ELSE PyStr("artifacts/data.csv")] :
        K \in {{F_ER_PATH}, {F_ER_PATH, F_DS_PATH}, {F_DS_PATH}}}

\* MLmodel as an earlier _add_metadata(model_path, num_gpus=1,
\* explanations='plotly', oodd='disabled') left it
PatchedDescriptors ==
    {Update(d, "metadata",
            MetadataSection(d, None, Some("plotly"), Some("disabled"), Some(1))) :
        d \in {[k \in {F_DS_PATH} |-> PyStr("artifacts/data.csv")]}}

InitFiles ==
    {[p \in Paths |->
        IF p = "a_path" THEN a ELSE IF p = MLmodelPath THEN m ELSE None] :
        a \in {None, Some(json_dump(<< <<"featureColumns", <<"x">>>> >>))},
        m \in {None} \cup {Some(yaml_dump(d)) :
                                d \in SavedDescriptors \cup PatchedDescriptors}}

Init ==
    /\ vpc = "idle"
    /\ executed = <<>>
    /\ exc = NoExc
    /\ raised = NoExc
    /\ kwargs = EmptyDict
    /\ model_output = NotAMapping
    /\ metadata = NoMetadata
    /\ model_zip_size_limit = 1
    /\ st_size = None
    /\ out = <<>>
    /\ files \in InitFiles
    /\ call = NoCall
    /\ patches = 0
    /\ packaging = [pc |-> "idle"]
    /\ serving = [pc |-> "idle"]

\* the validator: ModelValidator()(...)
SpecValidator == Init /\ [][NextValidator]_vars

\* calls of verify_model_output
NextOutput == verify_model_output_call
SpecOutput == Init /\ [][NextOutput]_vars

\* calls of register_example_request
NextRegistrar == register_example_request_call
SpecRegistrar == Init /\ [][NextRegistrar]_vars

\* calls of _add_metadata
NextMetadata == _add_metadata_call
SpecMetadata == Init /\ [][NextMetadata]_vars

\* calls of infer_imported_code_path
NextInfer == infer_imported_code_path_call
SpecInfer == Init /\ [][NextInfer]_vars

\* calls of make_example_request
NextExample == make_example_request_call
SpecExample == Init /\ [][NextExample]_vars

\* check_model_serving
SpecServing == Init /\ [][NextServing]_vars

\* to_navio, with the validator it runs
SpecPackaging == Init /\ [][NextPackaging]_vars

\* prediction_call and _check_if_prediction_call_is_used
SpecDecorator == Init /\ [][NextDecorator]_vars

\* ------------------------------------------------------------------------
\* Properties of the validator (SpecValidator)
\* ------------------------------------------------------------------------
OutcomeMessages(printed) == SelectSeq(printed, LAMBDA m : m.by = "__call__")
AllStages ==
    <<"METADATA_CHECK", "REQUEST_SCHEMA_CHECK", "SERVING_SMOKE_TEST",
      "DECORATOR_USAGE_CHECK", "OUTPUT_SHAPE_CHECK", "SIZE_CHECK">>

\* C1: _run enters its stages in the order metadata check, example-request
\* schema check, load-and-predict, decorator-usage check, output check,
\* archive-size check: the stages entered so far are always a prefix of that
\* order, all six have been entered when _run returns, and once a stage has
\* raised a jsonschema ValidationError or an AssertionError no further
\* stage is entered in that run.
C1_StagesInOrderFailFast ==
    /\ [](IsPrefix(executed, AllStages))
    /\ [](vpc \in {"return", "SUCCEEDED"} => executed = AllStages)
    /\ [][(exc \in {ValidationError, AssertionError} /\ executed' # <<>>)
            => executed' = executed]_vars

C1_Witness ==
    /\ vpc = "FAILED"
    /\ exc = AssertionError
    /\ executed = SubSeq(AllStages, 1, 5)

\* C2: when _run raised a jsonschema ValidationError or an AssertionError,
\* __call__ ends having printed the 'Validation failed' message followed by
\* append_to_failed_msg (nothing when absent) exactly once, no success
\* message, and having re-raised that same error.
C2_FailureReportedOnceAndReraised ==
    (vpc \in Terminal /\ exc \in {ValidationError, AssertionError})
        => /\ vpc = "FAILED"
           /\ raised = exc
           /\ OutcomeMessages(out) =
                <<[by |-> "__call__", text |-> FAILED_TEXT,
                   arg |-> IF "append_to_failed_msg" \in DOMAIN kwargs
                           THEN kwargs["append_to_failed_msg"] ELSE ""]>>

C2_Witness ==
    /\ vpc = "FAILED"
    /\ exc = AssertionError
    /\ raised = AssertionError
    /\ executed[Len(executed)] = "OUTPUT_SHAPE_CHECK"
    /\ "append_to_failed_msg" \in DOMAIN kwargs
    /\ Len(OutcomeMessages(out)) = 1

IsRegistration == call.op = "register_example_request"
HasEntry(artifacts) ==
    artifacts # None /\ EXAMPLE_REQUEST \in DOMAIN artifacts[1]
InlineGiven == call.example_request # None /\ call.example_request[1] # <<>>

\* C4: register_example_request raises AssertionError when no inline
\* request is supplied and (a) no artifact map is supplied either, (b) the
\* artifact map has no example_request entry, or (c) its example_request
\* entry names a file that does not exist.
C4_MissingRequestRejected ==
    (IsRegistration /\ call.example_request = None)
        => /\ call.artifacts = None => call.raised = AssertionError
           /\ (call.artifacts # None /\ ~HasEntry(call.artifacts))
                => call.raised = AssertionError
           /\ (HasEntry(call.artifacts)
                /\ ~exists(call.pre, call.artifacts[1][EXAMPLE_REQUEST]))
                => call.raised = AssertionError

C4_Witness ==
    /\ IsRegistration
    /\ call.example_request = None
    /\ HasEntry(call.artifacts)
    /\ call.artifacts[1][EXAMPLE_REQUEST] = "a_path"
    /\ ~exists(call.pre, "a_path")
    /\ call.raised = AssertionError

\* C5 as claimed: a call that supplies both an inline example request and
\* an artifact map with an example_request entry fails with an
\* AssertionError.
C5_BothRejected ==
    (IsRegistration /\ InlineGiven /\ HasEntry(call.artifacts))
        => call.raised = AssertionError

\* C5: register_example_request requires at least one of the two: with
\* neither it raises AssertionError; a call that supplies both a non-empty
\* inline request and an artifact map with an example_request entry is not
\* rejected: the request is written to the path that entry names and the
\* supplied map is returned (the call fails, with the error of open(), only
\* when that path cannot be opened for writing).
C5_AtLeastOneRequired ==
    IsRegistration
        => /\ (call.example_request = None /\ call.artifacts = None)
                => call.raised = AssertionError
           /\ (InlineGiven /\ HasEntry(call.artifacts))
                => LET target == call.artifacts[1][EXAMPLE_REQUEST]
                   IN  /\ call.raised # AssertionError
                       /\ call.raised = NoExc <=> target \notin Unwritable
                       /\ call.raised = NoExc
                            => /\ call.ret = call.artifacts
                               /\ files[target] =
                                    Some(json_dump(call.example_request[1]))

C5_Witness ==
    /\ IsRegistration
    /\ InlineGiven
    /\ HasEntry(call.artifacts)
    /\ call.raised = NoExc
    /\ call.ret[1][EXAMPLE_REQUEST] = "a_path"
    /\ exists(call.pre, "a_path")
    /\ files["a_path"] # call.pre["a_path"]

\* C6 as claimed: every call with an inline example request writes the
\* request to <tmp_dir>/example_request.json, returns a map whose
\* example_request entry is that path and whose other entries are the
\* supplied ones, and writes no other file.
C6_AlwaysTempFile ==
    (IsRegistration /\ InlineGiven)
        => LET tmp == TmpFile(call.tmp_dir)
               given == IF call.artifacts = None THEN EmptyDict
                        ELSE call.artifacts[1]
           IN  /\ call.raised = NoExc
               /\ files[tmp] = Some(json_dump(call.example_request[1]))
               /\ call.ret[1][EXAMPLE_REQUEST] = tmp
               /\ \A k \in DOMAIN given \ {EXAMPLE_REQUEST} :
                    call.ret[1][k] = given[k]
               /\ \A p \in Paths \ {tmp} : files[p] = call.pre[p]

\* C6: a call with a non-empty inline example request writes it to one
\* file, the target: the path of the supplied map's example_request entry
\* when it has one, <tmp_dir>/example_request.json otherwise.  The text
\* written reads back as the request, the returned map is the supplied map
\* with example_request -> target, and no other file changes.  Without a
\* supplied entry the call always succeeds; a call that fails writes nothing.
C6_InlineWrittenToTarget ==
    (IsRegistration /\ InlineGiven)
        => LET tmp == TmpFile(call.tmp_dir)
               given == IF call.artifacts = None THEN EmptyDict
                        ELSE call.artifacts[1]
               target == IF EXAMPLE_REQUEST \in DOMAIN given
                         THEN given[EXAMPLE_REQUEST] ELSE tmp
           IN  /\ EXAMPLE_REQUEST \notin DOMAIN given => call.raised = NoExc
               /\ call.raised # NoExc => files = call.pre
               /\ call.raised = NoExc
                    => /\ files[target] # None
                       /\ json_load(files[target][1]) = call.example_request[1]
                       /\ DOMAIN call.ret[1] = DOMAIN given \cup {EXAMPLE_REQUEST}
                       /\ call.ret[1][EXAMPLE_REQUEST] = target
                       /\ \A k \in DOMAIN given : call.ret[1][k] = given[k]
                       /\ \A p \in Paths \ {target} : files[p] = call.pre[p]

C6_Witness ==
    /\ IsRegistration
    /\ InlineGiven
    /\ call.artifacts # None
    /\ DOMAIN call.artifacts[1] = {"model_path"}
    /\ call.raised = NoExc
    /\ call.ret[1][EXAMPLE_REQUEST] = TmpFile(call.tmp_dir)
    /\ call.pre[TmpFile(call.tmp_dir)] = None
    /\ files[TmpFile(call.tmp_dir)] # None

\* ------------------------------------------------------------------------
\* Properties of verify_model_output (SpecOutput)
\* ------------------------------------------------------------------------
IsVerification == call.op = "verify_model_output"

\* C7: verify_model_output accepts an output only if it is a mapping whose
\* key set contains `prediction` or is exactly {error_code, message,
\* stack_trace}, and it accepts every mapping with exactly those three keys;
\* a non-mapping, and a mapping without `prediction` whose key set is
\* anything else (a strict subset or a superset of the three included),
\* raises AssertionError.
C7_KeySetShapes ==
    IsVerification
        => LET o == call.model_output
               threeKeys == {"error_code", "message", "stack_trace"}
           IN  /\ call.raised = NoExc
                    => o.mapping /\ ("prediction" \in o.keys \/ o.keys = threeKeys)
               /\ (o.mapping /\ o.keys = threeKeys) => call.raised = NoExc
               /\ ~o.mapping => call.raised = AssertionError
               /\ (o.mapping /\ "prediction" \notin o.keys /\ o.keys # threeKeys)
                    => call.raised = AssertionError

C7_Witness ==
    /\ IsVerification
    /\ call.model_output.mapping
    /\ call.model_output.keys = {"error_code", "message"}
    /\ call.raised = AssertionError

Numeric == {"integer", "number"}
ItemsIn(p, T) == \A i \in 1..Len(p.items) : p.items[i] \in T
Mixes(p, S, T) ==
    /\ \E i \in 1..Len(p.items) : p.items[i] \in S
    /\ \E i \in 1..Len(p.items) : p.items[i] \in T

IsPatch == call.op = "_add_metadata"
Given(x) == x # None
Truthy(x) == x # None /\ x[1] # ""

\* C10 as claimed: _add_metadata fails whenever the explanation mode is not
\* one of disabled, default, plotly, the OOD mode is not one of disabled,
\* default, or the GPU count is negative, and leaves the descriptor as it
\* was in every such failure.
C10_AnyOtherModeFails ==
    (IsPatch /\ exists(call.pre, MLmodelPath)
        /\ \/ Given(call.explanations)
                /\ call.explanations[1] \notin {"disabled", "default", "plotly"}
           \/ Given(call.oodd) /\ call.oodd[1] \notin {"disabled", "default"}
           \/ Given(call.num_gpus) /\ call.num_gpus[1] < 0)
        => call.raised # NoExc /\ files = call.pre

\* C10: _add_metadata raises AssertionError when the explanation mode is a
\* non-empty string other than disabled, default, plotly, when the OOD mode
\* is a non-empty string other than disabled, default, or when the GPU
\* count is negative; None and the empty string count as not set and are
\* accepted.  On an existing descriptor these, and a GPU count of None, are
\* the only failures, and every failing call leaves the file system as it
\* was.
C10_BadArgumentsFailBeforeWrite ==
    IsPatch
        => LET bad ==
                \/ Truthy(call.explanations)
                    /\ call.explanations[1] \notin {"disabled", "default", "plotly"}
                \/ Truthy(call.oodd)
                    /\ call.oodd[1] \notin {"disabled", "default"}
                \/ Given(call.num_gpus) /\ call.num_gpus[1] < 0
           IN  /\ (bad /\ exists(call.pre, MLmodelPath))
                    => call.raised = AssertionError
               /\ (exists(call.pre, MLmodelPath) /\ Given(call.num_gpus))
                    => (call.raised # NoExc <=> bad)
               /\ call.raised # NoExc => files = call.pre

C10_Witness ==
    /\ IsPatch
    /\ exists(call.pre, MLmodelPath)
    /\ call.explanations = Some("shap")
    /\ call.oodd = Some("disabled")
    /\ call.num_gpus = Some(1)
    /\ call.raised = AssertionError
    /\ files = call.pre

\* C11: after a successful _add_metadata call the descriptor, read back
\* from disk, has metadata.explanations equal to the supplied explanation
\* mode and metadata.oodDetection equal to the supplied OOD mode, each
\* 'default' when the mode was not set (None or empty);
\* metadata.request_schema.path equal to the path the descriptor read by the
\* call registers for the example_request artifact; and metadata.gpus
\* present exactly when the GPU count is greater than 0, equal to it.
C11_PatchRoundTrip ==
    (IsPatch /\ call.raised = NoExc)
        => LET before == yaml_load(call.pre[MLmodelPath][1])
               cfg == yaml_load(files[MLmodelPath][1])
               mode(x) == IF Truthy(x) THEN x[1] ELSE "default"
           IN  /\ _get_field(cfg, M_EXPLANATIONS) = PyStr(mode(call.explanations))
               /\ _get_field(cfg, M_OOD) = PyStr(mode(call.oodd))
               /\ M_RS_PATH \in DOMAIN cfg
               /\ cfg[M_RS_PATH] = _get_field(before, F_ER_PATH)
               /\ M_GPUS \in DOMAIN cfg <=> call.num_gpus[1] > 0
               /\ call.num_gpus[1] > 0 => cfg[M_GPUS] = PyInt(call.num_gpus[1])

C11_Witness ==
    /\ IsPatch
    /\ call.raised = NoExc
    /\ call.explanations = Some("plotly")
    /\ call.oodd = None
    /\ call.num_gpus = Some(0)
    /\ M_GPUS \in DOMAIN yaml_load(call.pre[MLmodelPath][1])
    /\ F_ER_PATH \notin DOMAIN yaml_load(call.pre[MLmodelPath][1])
    /\ M_GPUS \notin DOMAIN yaml_load(files[MLmodelPath][1])
    /\ yaml_load(files[MLmodelPath][1])[M_EXPLANATIONS] = PyStr("plotly")

\* ------------------------------------------------------------------------
\* Properties of infer_imported_code_path (SpecInfer)
\* ------------------------------------------------------------------------
IsInference == call.op = "infer_imported_code_path"
\* the call passed its existence asserts
Inferring == IsInference /\ call.raised # AssertionError

\* an import that resolves to a module with a file
Resolved(name) ==
    /\ name \in DOMAIN sys_modules
    /\ name \notin builtin_module_names
    /\ sys_modules[name].file # None

\* the module's file lies in an ignored directory or anywhere below one
InIgnoredPath(name, ignores) ==
    \E ig \in ignores : ig \in parents(sys_modules[name].file[1])

IsPackageDir(d) == Append(d, "__init__.py") \in ProjectFiles

\* the top-level directory that owns a file: the outermost package
\* directory above it, or its own directory when that is not a package
Owner(file) ==
    LET dir == Parent(file)
        up == parents(dir) \cup {dir}
    IN  IF ~IsPackageDir(dir) THEN dir
        ELSE CHOOSE d \in up :
                /\ \A e \in up : Len(e) >= Len(d) => IsPackageDir(e)
                /\ ~IsPackageDir(Parent(d))

Keys(items) == {items[i][1] : i \in 1..Len(items)}

\* C12 as claimed: in a successful call every resolved import that is not
\* in an ignored path has the top-level directory that owns it in the
\* result, every entry of the result is such an owning directory, and the
\* result has no duplicate and no empty entry.
C12_EveryImportContributes ==
    (IsInference /\ call.raised = NoExc)
        => LET live == {n \in Range(call.imported_modules) :
                            Resolved(n) /\ ~InIgnoredPath(n, call.ignores)}
           IN  /\ \A n \in live : Owner(sys_modules[n].file[1]) \in Range(call.ret)
               /\ \A i, j \in 1..Len(call.ret) : call.ret[i] = call.ret[j] => i = j
               /\ \A i \in 1..Len(call.ret) : call.ret[i] # <<>>

\* C18 as claimed: the default ignore locations of the entry path and its
\* parents are among the ignore paths of every call, whatever ignore paths
\* the caller supplies.
C18_DefaultsAlwaysApplied ==
    Inferring
        => /\ DefaultIgnorePaths(call.path) \subseteq call.ignores
           /\ call.to_ignore_paths # None
                => call.to_ignore_paths[1] \subseteq call.ignores

\* C18: the default ignore locations are applied only when the caller
\* supplies no ignore path (None or an empty list); a non-empty list
\* replaces them, so that a module installed under a default location is
\* mapped unless the supplied list covers it.
C18_DefaultsOnlyWithoutExplicit ==
    Inferring
        => LET explicit == IF call.to_ignore_paths = None THEN {}
                           ELSE call.to_ignore_paths[1]
           IN  /\ explicit = {} => call.ignores = DefaultIgnorePaths(call.path)
               /\ explicit # {} => call.ignores = explicit
               /\ \A n \in Range(call.imported_modules) :
                    (Resolved(n) /\ ~InIgnoredPath(n, explicit) /\ explicit # {})
                        => n \in Keys(call.name_to_module)

C18_Witness ==
    /\ IsInference
    /\ call.raised = NoExc
    /\ call.to_ignore_paths = Some({PROJ \o <<"pkg", "utils">>})
    /\ VENV \in DefaultIgnorePaths(call.path)
    /\ call.imported_modules = <<<<"yaml">>>>
    /\ call.ret = <<SITE_PACKAGES \o <<"yaml">>>>

\* C20 as claimed: no imported module whose file lies in an ignored path,
\* directly inside the ignored directory or anywhere below it, is a key of
\* the name-to-path map.
C20_IgnoredNeverMapped ==
    Inferring
        => \A n \in Range(call.imported_modules) :
            (Resolved(n) /\ InIgnoredPath(n, call.ignores))
                => n \notin Keys(call.name_to_module)

\* ------------------------------------------------------------------------
\* Warnings of the validator (SpecValidator)
\* ------------------------------------------------------------------------
Warnings ==
    {NESTED_WARNING, NESTED_DEFAULT_WARNING, DECORATOR_WARNING,
     SizeWarning(model_zip_size_limit)}
\* the messages a step appends to stdout
Appended == IF Len(out') > Len(out) THEN SubSeq(out', Len(out) + 1, Len(out'))
            ELSE <<>>

\* C17: a stage that prints one of the four warnings (nested example
\* request, default OOD/explanations with a nested input, predict method
\* not wrapped by the decorator, archive over the size limit) does not
\* raise: control goes on to the next stage, or to the normal return
\* after the size check.  The size check prints its warning exactly when
\* the archive size is strictly greater than the limit.
C17_WarningsNonFatal ==
    /\ [][(\E w \in Warnings : w \in Range(Appended))
            => /\ exc' = NoExc
               /\ vpc' = _run_next(vpc)
               /\ vpc' \notin {"except", "FAILED", "ERRORED"}]_vars
    /\ [][(vpc = "SIZE_CHECK" /\ st_size' # None)
            => (SizeWarning(model_zip_size_limit) \in Range(Appended)
                    <=> st_size'[1] > model_zip_size_limit)]_vars

C17_Witness ==
    /\ vpc = "SUCCEEDED"
    /\ raised = NoExc
    /\ st_size = Some(model_zip_size_limit + 1)
    /\ out = <<NESTED_WARNING, NESTED_DEFAULT_WARNING, DECORATOR_WARNING,
               SizeWarning(model_zip_size_limit), SucceededMsg(kwargs)>>

\* ------------------------------------------------------------------------
\* Properties of make_example_request (SpecExample)
\* ------------------------------------------------------------------------
IsExample == call.op = "make_example_request"
Names(columns) == [i \in 1..Len(columns) |-> columns[i].name]

\* C19: make_example_request raises AssertionError when target equals
\* datetime_column; in every example request it returns the two names
\* differ, the feature columns are exactly the keys of the row other than
\* the target and the datetime column, in the row's order, so neither of
\* the two is among them, and minimumNumberRows is present only with a
\* positive value (the min_rows supplied).
C19_ColumnsKeptApart ==
    IsExample
        => LET e == call.example
               dt == call.datetime_column
               keys == [i \in 1..Len(call.row) |-> call.row[i][1]]
           IN  /\ dt = Some(call.target) => e.raised = AssertionError
               /\ e.raised = NoExc
                    => /\ dt # Some(call.target)
                       /\ Names(e.featureColumns) =
                            SelectSeq(keys, LAMBDA k : k # call.target /\ dt # Some(k))
                       /\ call.target \notin Range(Names(e.featureColumns))
                       /\ dt # None => dt[1] \notin Range(Names(e.featureColumns))
                       /\ Names(e.targetColumns) = <<call.target>>
                       /\ e.minimumNumberRows # None
                            => /\ e.minimumNumberRows[1] > 0
                               /\ e.minimumNumberRows = call.min_rows

C19_Witness ==
    /\ IsExample
    /\ call.example.raised = NoExc
    /\ Len(call.row) = 3
    /\ call.target = "y"
    /\ call.datetime_column = Some("ts")
    /\ call.min_rows = Some(1)
    /\ Names(call.example.featureColumns) = <<"x">>
    /\ call.example.minimumNumberRows = Some(1)

\* ------------------------------------------------------------------------
\* Properties of check_model_serving (SpecServing)
\* ------------------------------------------------------------------------
Launched == serving.pc # "idle"

IsToNavio == packaging.pc # "idle" /\ packaging.entry = "to_navio"
ModelZip == Some(OUTPUT \o <<".zip">>)

\* a code_path with an entry that is not a directory, is an ancestor of the
\* output path or is the current working directory
BadCodePath(code_path) ==
    /\ code_path # None
    /\ \E i \in 1..Len(code_path[1].entries) :
        LET p == code_path[1].entries[i]
        IN  ~is_dir(p) \/ p \in parents(OUTPUT) \/ p = CWD

\* the call raised before its first step: the output directory is as it
\* was, save_model was not invoked and there is no archive
RejectedEarly ==
    /\ packaging'.pc = "raised"
    /\ packaging'.raised # NoExc
    /\ packaging'.steps = <<>>
    /\ ~packaging'.archive
    /\ files'[MLmodelPath] = files[MLmodelPath]
    /\ files'[SysDepsPath] = files[SysDepsPath]

\* C13: to_navio rejects a code_path with an entry that is not a directory,
\* that is an ancestor of the output path or that is the current working
\* directory; the call then raises with the output directory not removed,
\* save_model not invoked and no archive made, and nothing runs afterwards.
C13_BadCodePathRejected ==
    /\ [][(/\ packaging.pc = "idle"
           /\ packaging'.pc # "idle"
           /\ packaging'.entry = "to_navio"
           /\ BadCodePath(packaging'.args.code_path)) => RejectedEarly]_vars
    /\ [][packaging.pc = "raised" => packaging' = packaging /\ files' = files]_vars

\* a list holding the current working directory was rejected by the assert
\* of _safe_code_path while a model directory existed, and it still exists
C13_Witness ==
    /\ IsToNavio
    /\ packaging.args.code_path = Some([list |-> TRUE, entries |-> <<CWD>>])
    /\ packaging.args.pip_packages # None
    /\ packaging.pc = "raised"
    /\ packaging.raised = AssertionError
    /\ packaging.steps = <<>>
    /\ exists(files, MLmodelPath)

\* C14: the steps of a to_navio run are a prefix of rmtree, save_model,
\* _add_metadata, _add_sys_dependencies, make_archive, ModelValidator; the
\* validator runs only after the archive is made and only if validate_model
\* is set; an exception of the validator is raised to the caller; with
\* validate_model unset the validator is never invoked and the path of the
\* archive is returned.
C14_StepsInOrder ==
    /\ [](IsToNavio =>
            /\ IsPrefix(packaging.steps, ToNavioSteps)
            /\ (Len(packaging.steps) = Len(ToNavioSteps) =>
                    packaging.args.validate_model /\ packaging.archive)
            /\ (Len(packaging.steps) < Len(ToNavioSteps) => vpc = "idle")
            /\ (packaging.archive <=> Len(packaging.steps) >= 5)
            /\ (packaging.pc = "returned" =>
                    /\ packaging.ret = ModelZip
                    /\ packaging.archive
                    /\ IF packaging.args.validate_model
                       THEN vpc = "SUCCEEDED" /\ raised = NoExc
                       ELSE vpc = "idle"))
    /\ [][(packaging.pc = "validating" /\ packaging'.pc # "validating") =>
            IF raised # NoExc
            THEN packaging'.pc = "raised" /\ packaging'.raised = raised
            ELSE packaging'.pc = "returned"]_vars
    /\ [][(packaging.pc = "validate" /\ packaging'.pc # "validate"
                /\ ~packaging.args.validate_model) =>
            packaging'.pc = "returned" /\ packaging'.ret = ModelZip]_vars
    /\ [][(IsToNavio /\ vpc \in {"FAILED", "ERRORED"} /\ packaging' # packaging) =>
            packaging'.pc = "raised" /\ packaging'.raised # NoExc]_vars

\* all six steps ran and the failure of the validator was raised by to_navio
C14_Witness ==
    /\ IsToNavio
    /\ packaging.steps = ToNavioSteps
    /\ packaging.pc = "raised"
    /\ vpc = "FAILED"
    /\ packaging.raised = raised
    /\ raised # NoExc

\* C15: with neither pip_packages nor conda_env, to_navio and to_navio_mlflow
\* raise before the output directory is removed, before save_model is invoked
\* and before an archive is written; the error is the AssertionError of the
\* precondition unless an earlier check of code_path raised.
C15_EnvironmentRequired ==
    [][(/\ packaging.pc = "idle"
        /\ packaging'.pc # "idle"
        /\ packaging'.args.pip_packages = None
        /\ packaging'.args.conda_env = None) =>
            /\ RejectedEarly
            /\ files' = files
            /\ (packaging'.entry = "to_navio_mlflow" =>
                    packaging'.raised = AssertionError)
            /\ (CodePathError(packaging'.args.code_path) = NoExc =>
                    packaging'.raised = AssertionError)]_vars

\* to_navio was called with neither, with no code_path, while a model
\* directory existed: it raised AssertionError and the directory is kept
C15_Witness ==
    /\ IsToNavio
    /\ packaging.args.pip_packages = None
    /\ packaging.args.conda_env = None
    /\ packaging.args.code_path = None
    /\ packaging.pc = "raised"
    /\ packaging.raised = AssertionError
    /\ packaging.steps = <<>>
    /\ ~packaging.archive
    /\ exists(files, MLmodelPath)

\* ------------------------------------------------------------------------
\* prediction_call: results, error payloads, the check for its use
\* ------------------------------------------------------------------------
IsWrapping == call.op = "prediction_call"

\* C21: a function wrapped by prediction_call returns what the wrapped
\* function returns when that does not raise; when it raises an Exception
\* the wrapper raises nothing and returns a mapping whose keys are exactly
\* error_code, message and stack_trace, which verify_model_output accepts.
C21_ResultOrErrorPayload ==
    IsWrapping =>
        LET f == call.predict_fn.outcome
        IN  /\ f.raises = NoExc => call.result = f
            /\ IsException(f.raises) =>
                /\ call.result.raises = NoExc
                /\ DOMAIN call.result.value = ERROR_KEYS
                /\ call.result.value.error_code = f.raises
                /\ call.result.value.message = f.message
                /\ verify_model_output(AsModelOutput(call.result.value))
                        = Result(NoExc, <<>>)

\* a function that raises KeyError was wrapped and called: the payload came
\* back in place of the exception
C21_Witness ==
    /\ IsWrapping
    /\ call.predict_fn.outcome.raises = KeyError
    /\ call.result.raises = NoExc
    /\ DOMAIN call.result.value = ERROR_KEYS

IsDecoratorCheck == call.op = "_check_if_prediction_call_is_used"
Warned == \E i \in 1..Len(out) : out[i] = DECORATOR_WARNING

\* C22: for a model whose predict was wrapped by prediction_call the check
\* prints no warning; it warns only for a predict that was not wrapped, and
\* not when the predict cannot be inspected.
C22_WrapperDetected ==
    IsDecoratorCheck =>
        /\ (/\ call.model.python_model # None
            /\ call.model.python_model[1].decorator = "prediction_call") => ~Warned
        /\ Warned =>
            /\ call.model.python_model # None
            /\ call.model.python_model[1].decorator # "prediction_call"
        /\ call.model.python_model = None => ~Warned

\* ------------------------------------------------------------------------
\* Exceptions the validator does not catch (SpecValidator)
\* ------------------------------------------------------------------------
Uncaught == exc \notin {NoExc, ValidationError, AssertionError}

\* C23: when a stage raises an exception that is neither a jsonschema
\* ValidationError nor an AssertionError, __call__ lets it through to the
\* caller, no further stage is entered, and neither the 'Validation failed'
\* nor the 'Validation succeeded' message is printed; in every run at most
\* one of the two messages is printed.
C23_OtherErrorsPropagateSilently ==
    /\ []((vpc \in Terminal /\ Uncaught) =>
            /\ vpc = "ERRORED"
            /\ raised = exc
            /\ OutcomeMessages(out) = <<>>)
    /\ [][(Uncaught /\ executed' # <<>>) => executed' = executed]_vars
    /\ [](Len(OutcomeMessages(out)) <= 1)

\* loading the model failed in the third stage, after a warning of the
\* second: the error reached the caller and only the warning was printed
C23_Witness ==
    /\ vpc = "ERRORED"
    /\ exc = OtherError
    /\ raised = OtherError
    /\ executed = SubSeq(AllStages, 1, 3)
    /\ out = <<NESTED_WARNING>>

====
